---- MODULE Spec2Model ----
(***************************************************************************)
(* Brushstroke ledger and generation orchestration of quickbrush.          *)
(*                                                                         *)
(* One account is modelled: its User document, its transaction and         *)
(* generation collections, the Stripe subscription the account may hold,   *)
(* and the request workers that serve the account concurrently.  A worker  *)
(* holds its own in-memory copy of the User document (loc) between the     *)
(* load at the start of the request and user.reload() at its end;          *)
(* user.save() writes back only the fields the worker changed.             *)
(***************************************************************************)
EXTENDS Integers, Sequences, FiniteSets, TLC

\* ------------------------------------------------------------------ bounds
\* Longest transaction log and generation collection explored.
MaxTransactions == 2
MaxGenerations == 1
\* Largest purchased balance explored (credits are refused above it).
MaxPurchased == 3
\* Billing periods the provider goes through.
MaxPeriod == 2
\* Largest amount an admin gifts or removes in one call.
MaxAdminAmount == 1
\* Tier allowances, pack size and archive cap: the configured values
\* (250 / 500 brushstrokes, packs of 250, 100 images) scaled down so that an
\* allowance, a pack and the archive are exhausted within the bounds above.
AllowanceBasic == 1
AllowancePro == 3
PackBrushstrokes == 2
MAX_IMAGES_PER_USER == 1
\* Generations two concurrent requests may store between them.
MaxConcurrentGenerations == 2
\* Generations stored while the archive cap is exercised.
MaxArchiveGenerations == 3
\* Allowances, usage counters and amounts the debit is applied to.
MaxDebitAllowance == 5
MaxDebitUsed == 6
MaxDebitAmount == 5
MaxDebitPurchased == 10

\* The clock: ticks in a second and the last tick explored.
TicksPerSecond == 2
MaxTime == 9
\* Rate limits (configured 1 request in 10 seconds, 50 in the hour) and the
\* hour, in seconds, scaled down so that both windows fill and expire.
SecondsLimit == 1
SecondsWindow == 3
HourlyLimit == 2
HourSeconds == 4
\* Attempts recorded in one run.
MaxAttempts == 3
\* The last tick explored with concurrent callers.
MaxRaceTime == 4

\* ------------------------------------------------------- program constants
\* models.QUALITY_COSTS
CostLow == 1
CostMedium == 3
CostHigh == 5

QUALITY_COSTS == [low |-> CostLow, medium |-> CostMedium, high |-> CostHigh]
Qualities == {"low", "medium", "high"}

\* ImageQuality(quality): the enum lookup raises ValueError for a string that
\* is not a member's value.
ImageQuality(quality) ==
    [raises |-> quality \notin Qualities, value |-> quality]

\* Config.get_subscription_tiers: price id -> allowance
Tiers == {"basic", "pro"}
get_subscription_tiers == [basic |-> AllowanceBasic, pro |-> AllowancePro]

Workers == {"w1", "w2"}
\* The worker of the sequential specification.
Sequential == {"w1"}

NoSub == "none"
SubId == "sub_1"
NoPeriod == 0

Max(a, b) == IF a >= b THEN a ELSE b
Min(a, b) == IF a <= b THEN a ELSE b

VARIABLES
    user,          \* the account's User document in the users collection
    user_exists,   \* FALSE once delete_user_account has run
    transactions,  \* the account's BrushstrokeTransaction documents, in created_at order
    generations,   \* the account's Generation documents, in created_at order
    stripe,        \* the provider's subscription for the account: status, period,
                   \* current price and the price paid on the latest invoice
    pc,            \* per worker: position in the request
    loc,           \* per worker: in-memory copy of the User document
    dirty,         \* per worker: fields changed in memory since the last save
    req,           \* per worker: locals of generate_image / record_generation
    result,        \* per worker: the GenerationResult returned
    now,           \* the clock (datetime.now), in ticks
    rate_limits,   \* the account's RateLimit documents for the action: their
                   \* timestamps, in insertion order
    rl,            \* per rate-limited caller: position and the RateLimitResult held
    auth_codes,    \* the OAuthAuthorizationCode documents, by code
    tokens,        \* per code: the OAuthToken documents created by exchanging it
    ex             \* per token request: position in exchange_authorization_code

vars == <<user, user_exists, transactions, generations, stripe,
          pc, loc, dirty, req, result, now, rate_limits, rl,
          auth_codes, tokens, ex>>

db_vars == <<user, user_exists, transactions, generations>>
worker_vars == <<pc, loc, dirty, req, result>>
rate_vars == <<now, rate_limits, rl>>
oauth_vars == <<auth_codes, tokens, ex>>

\* ------------------------------------------------------------- User model
Fields == {"purchased_brushstrokes", "stripe_subscription_id",
           "current_period_start", "allowance_used_this_period"}

\* A freshly created User: no purchased brushstrokes, default SubscriptionInfo.
NewUser == [purchased_brushstrokes |-> 0,
            stripe_subscription_id |-> NoSub,
            current_period_start |-> NoPeriod,
            allowance_used_this_period |-> 0]

\* A balance whose subscription part is not floored at zero.
total_brushstrokes_signed(u, subscription_allowance) ==
    (subscription_allowance - u.allowance_used_this_period)
        + u.purchased_brushstrokes

\* User.total_brushstrokes
total_brushstrokes(u, subscription_allowance) ==
    LET subscription_used == u.allowance_used_this_period
        subscription_remaining == Max(0, subscription_allowance - subscription_used)
    IN  subscription_remaining + u.purchased_brushstrokes

\* A debit that charges the whole amount to the allowance while any is left.
used_from_allowance_uncapped(u, amount, subscription_allowance) ==
    IF subscription_allowance - u.allowance_used_this_period > 0 THEN amount ELSE 0

\* User.use_brushstrokes, the part taken from the subscription allowance
used_from_allowance(u, amount, subscription_allowance) ==
    LET allowance_remaining ==
            Max(0, subscription_allowance - u.allowance_used_this_period)
    IN  IF allowance_remaining > 0 THEN Min(amount, allowance_remaining) ELSE 0

\* A debit that charges the whole amount to the allowance counter.
use_brushstrokes_allowance_only(u, amount, subscription_allowance) ==
    IF total_brushstrokes(u, subscription_allowance) < amount
    THEN [ok |-> FALSE, user |-> u]
    ELSE [ok |-> TRUE,
          user |-> [u EXCEPT !.allowance_used_this_period = @ + amount]]

\* A debit that does not compare the balance with the amount first.
use_brushstrokes_unchecked(u, amount, subscription_allowance) ==
    LET from_allowance == used_from_allowance(u, amount, subscription_allowance)
        rest == amount - from_allowance
    IN  [ok |-> TRUE,
         user |-> [u EXCEPT
             !.allowance_used_this_period = @ + from_allowance,
             !.purchased_brushstrokes = IF rest > 0 THEN @ - rest ELSE @]]

\* User.use_brushstrokes: [ok, user]
use_brushstrokes(u, amount, subscription_allowance) ==
    IF total_brushstrokes(u, subscription_allowance) < amount
    THEN [ok |-> FALSE, user |-> u]
    ELSE LET from_allowance == used_from_allowance(u, amount, subscription_allowance)
             rest == amount - from_allowance
         IN  [ok |-> TRUE,
              user |-> [u EXCEPT
                  !.allowance_used_this_period = @ + from_allowance,
                  !.purchased_brushstrokes = IF rest > 0 THEN @ - rest ELSE @]]

\* A credit that also starts the usage counter afresh.
add_purchased_resetting(u, amount) ==
    [u EXCEPT !.purchased_brushstrokes = @ + amount,
              !.allowance_used_this_period = 0]

\* User.add_purchased_brushstrokes
add_purchased_brushstrokes(u, amount) ==
    [u EXCEPT !.purchased_brushstrokes = @ + amount]

\* User.set_subscription_id
set_subscription_id(u, stripe_subscription_id, period_start) ==
    [u EXCEPT !.stripe_subscription_id = stripe_subscription_id,
              !.current_period_start = period_start,
              !.allowance_used_this_period = 0]

\* User.clear_subscription
clear_subscription(u) ==
    [u EXCEPT !.stripe_subscription_id = NoSub,
              !.current_period_start = NoPeriod,
              !.allowance_used_this_period = 0]

\* A reset that forgets to store the new period.
reset_allowance_keeping_period(u, new_period_start) ==
    [u EXCEPT !.allowance_used_this_period = 0]

\* SubscriptionInfo.reset_allowance
reset_allowance(u, new_period_start) ==
    [u EXCEPT !.allowance_used_this_period = 0,
              !.current_period_start = new_period_start]

\* Fields an assignment marks as changed: those whose value differs.
Changed(old, new) == {f \in Fields : old[f] # new[f]}

\* user.save() of an existing document: only the changed fields are written.
save(doc, u, changed) == [f \in Fields |-> IF f \in changed THEN u[f] ELSE doc[f]]

\* ------------------------------------------------------------ Stripe reads
\* stripe_utils.get_subscription_info, its allowance: 0 without a subscription
\* id and 0 when the Stripe call raises; the status is not looked at.
get_subscription_info(u, reachable) ==
    IF u.stripe_subscription_id = NoSub THEN 0
    ELSE IF ~reachable THEN 0
    ELSE get_subscription_tiers[stripe.price]

\* ------------------------------------------------------------ transactions
BrushstrokeTransaction(type, amount, balance_after, generation) ==
    [transaction_type |-> type, amount |-> amount,
     balance_after |-> balance_after, generation |-> generation]

\* --------------------------------------------------------- rate limiter
\* Config.get_rate_limits: the short window and the hourly limit
get_rate_limits == [seconds_limit |-> SecondsLimit,
                    seconds_window |-> SecondsWindow,
                    hourly_limit |-> HourlyLimit]

\* Callers of the rate limiter; the first is the one of the sequential runs.
Clients == {"c1", "c2"}
SequentialClients == {"c1"}

\* rate_limiter.RateLimitResult
RateLimitResult(allowed, limit_type, retry_after, requests_remaining) ==
    [allowed |-> allowed, limit_type |-> limit_type,
     retry_after |-> retry_after, requests_remaining |-> requests_remaining]

\* RateLimit.objects(user, action, timestamp__gte = t - window): the records
\* of the window that ends at t, its start included.
InWindow(records, t, window) ==
    {i \in 1..Len(records) : records[i] >= t - window}

\* .order_by('timestamp').first(): the timestamp of the oldest record of S
OldestIn(records, S) ==
    CHOOSE ts \in {records[i] : i \in S} : \A i \in S : ts <= records[i]

\* int(timedelta.total_seconds()) of a span of ticks that is not negative
WholeSeconds(ticks) == ticks \div TicksPerSecond

\* A check that looks at the short window only.
check_rate_limit_short_only(records, t, store_ok) ==
    IF ~store_ok THEN RateLimitResult(TRUE, "", 0, 0)
    ELSE
    LET limits == get_rate_limits
        seconds_window == limits.seconds_window * TicksPerSecond
        recent == InWindow(records, t, seconds_window)
    IN  IF Cardinality(recent) >= limits.seconds_limit /\ recent # {}
        THEN RateLimitResult(FALSE, "seconds",
                 Max(1, WholeSeconds(OldestIn(records, recent) + seconds_window - t)),
                 0)
        ELSE RateLimitResult(TRUE, "", 0, limits.hourly_limit)

\* A check whose retry_after is the time elapsed since the oldest attempt.
check_rate_limit_elapsed(records, t, store_ok) ==
    IF ~store_ok THEN RateLimitResult(TRUE, "", 0, 0)
    ELSE
    LET limits == get_rate_limits
        seconds_window == limits.seconds_window * TicksPerSecond
        hour_window == HourSeconds * TicksPerSecond
        recent == InWindow(records, t, seconds_window)
        hourly == InWindow(records, t, hour_window)
    IN  IF Cardinality(recent) >= limits.seconds_limit /\ recent # {}
        THEN RateLimitResult(FALSE, "seconds",
                 Max(1, WholeSeconds(t - OldestIn(records, recent))), 0)
        ELSE IF Cardinality(hourly) >= limits.hourly_limit /\ hourly # {}
        THEN RateLimitResult(FALSE, "hourly",
                 Max(1, WholeSeconds(t - OldestIn(records, hourly))), 0)
        ELSE RateLimitResult(TRUE, "", 0,
                 limits.hourly_limit - Cardinality(hourly))

\* A check that tells every denied caller to wait for a whole window.
check_rate_limit_flat(records, t, store_ok) ==
    IF ~store_ok THEN RateLimitResult(TRUE, "", 0, 0)
    ELSE
    LET limits == get_rate_limits
        recent == InWindow(records, t, limits.seconds_window * TicksPerSecond)
        hourly == InWindow(records, t, HourSeconds * TicksPerSecond)
    IN  IF Cardinality(recent) >= limits.seconds_limit /\ recent # {}
        THEN RateLimitResult(FALSE, "seconds", limits.seconds_window, 0)
        ELSE IF Cardinality(hourly) >= limits.hourly_limit /\ hourly # {}
        THEN RateLimitResult(FALSE, "hourly", HourSeconds, 0)
        ELSE RateLimitResult(TRUE, "", 0,
                 limits.hourly_limit - Cardinality(hourly))

\* A check that denies the request when the store cannot be read.
check_rate_limit_fail_closed(records, t, store_ok) ==
    IF ~store_ok
    THEN RateLimitResult(FALSE, "seconds", get_rate_limits.seconds_window, 0)
    ELSE
    LET limits == get_rate_limits
        seconds_window == limits.seconds_window * TicksPerSecond
        hour_window == HourSeconds * TicksPerSecond
        recent == InWindow(records, t, seconds_window)
        hourly == InWindow(records, t, hour_window)
    IN  IF Cardinality(recent) >= limits.seconds_limit /\ recent # {}
        THEN RateLimitResult(FALSE, "seconds",
                 Max(1, WholeSeconds(OldestIn(records, recent) + seconds_window - t)),
                 0)
        ELSE IF Cardinality(hourly) >= limits.hourly_limit /\ hourly # {}
        THEN RateLimitResult(FALSE, "hourly",
                 Max(1, WholeSeconds(OldestIn(records, hourly) + hour_window - t)),
                 0)
        ELSE RateLimitResult(TRUE, "", 0,
                 limits.hourly_limit - Cardinality(hourly))

\* rate_limiter.check_rate_limit at time t; store_ok is FALSE when a query
\* (or Config.get_rate_limits) raises.
check_rate_limit(records, t, store_ok) ==
    IF ~store_ok THEN RateLimitResult(TRUE, "", 0, 0)
    ELSE
    LET limits == get_rate_limits
        seconds_window == limits.seconds_window * TicksPerSecond
        hour_window == HourSeconds * TicksPerSecond
        recent == InWindow(records, t, seconds_window)
        hourly == InWindow(records, t, hour_window)
    IN  IF Cardinality(recent) >= limits.seconds_limit /\ recent # {}
        THEN RateLimitResult(FALSE, "seconds",
                 Max(1, WholeSeconds(OldestIn(records, recent) + seconds_window - t)),
                 0)
        ELSE IF Cardinality(hourly) >= limits.hourly_limit /\ hourly # {}
        THEN RateLimitResult(FALSE, "hourly",
                 Max(1, WholeSeconds(OldestIn(records, hourly) + hour_window - t)),
                 0)
        ELSE RateLimitResult(TRUE, "", 0,
                 limits.hourly_limit - Cardinality(hourly))

\* rate_limiter.record_attempt at time t: one record is appended; a save
\* that raises is logged, nothing is stored and the call returns normally.
record_attempt(records, t, store_ok) ==
    [records |-> IF store_ok THEN Append(records, t) ELSE records,
     raised |-> FALSE]

\* A caller that holds no result.  at is the time of its latest check, error
\* whether the latest store call raised; admitted, admitted_at, denials and
\* denied_retry keep, for the caller's latest admitted request, the time of
\* its check, the denials since and the retry_after of the latest of them.
NoCheck == [pc |-> "idle", result |-> RateLimitResult(TRUE, "", 0, 0),
            at |-> 0, error |-> FALSE, admitted |-> FALSE, admitted_at |-> 0,
            denials |-> 0, denied_retry |-> 0]

InitRateLimits ==
    /\ now = 0
    /\ rate_limits = <<>>
    /\ rl = [c \in Clients |-> NoCheck]

\* ---------------------------------------------------- the OAuth code exchange
\* The authorization codes issued to the application.
Codes == {"code_1", "code_2"}
\* The token requests in flight at one time.
Exchangers == {"x1", "x2"}

\* oauth_service.create_authorization_code: the document saved for a code
OAuthAuthorizationCode == [is_used |-> FALSE, expired |-> FALSE]

NoExchange == [pc |-> "idle", code |-> "", result |-> "none"]

\* The user has authorized the application and its codes have been created.
InitOAuth ==
    /\ auth_codes = [c \in Codes |-> OAuthAuthorizationCode]
    /\ tokens = [c \in Codes |-> 0]
    /\ ex = [x \in Exchangers |-> NoExchange]

\* A code passes its expiry time (10 minutes after it was created).
CodeExpires(c) ==
    /\ ~auth_codes[c].expired
    /\ auth_codes' = [auth_codes EXCEPT ![c].expired = TRUE]
    /\ UNCHANGED <<db_vars, stripe, worker_vars, rate_vars, tokens, ex>>

\* oauth_service.get_authorization_code: the query filters on is_used=False
get_authorization_code(codes, code) ==
    IF codes[code].is_used THEN [found |-> FALSE, doc |-> codes[code]]
    ELSE [found |-> TRUE, doc |-> codes[code]]

\* exchange_authorization_code up to the PKCE check: the application's
\* credentials are verified, the unused code is looked up and the request is
\* checked against it; request_ok is FALSE when the credentials, the
\* redirect_uri or the code_verifier do not match.  Nothing is written.
ExchangeLookup(x, code, request_ok) ==
    /\ ex[x].pc = "idle"
    /\ LET auth_code == get_authorization_code(auth_codes, code)
       IN  IF request_ok /\ auth_code.found /\ ~auth_code.doc.expired
           THEN ex' = [ex EXCEPT ![x] = [pc |-> "found", code |-> code,
                                         result |-> "none"]]
           ELSE ex' = [ex EXCEPT ![x] = [pc |-> "done", code |-> code,
                                         result |-> "none"]]
    /\ UNCHANGED <<db_vars, stripe, worker_vars, rate_vars, auth_codes, tokens>>

\* exchange_authorization_code: auth_code.is_used = True; auth_code.save().
\* A save that raises leaves the function with the exception.
ExchangeMarkUsed(x, db_ok) ==
    /\ ex[x].pc = "found"
    /\ IF db_ok
       THEN /\ auth_codes' = [auth_codes EXCEPT ![ex[x].code].is_used = TRUE]
            /\ ex' = [ex EXCEPT ![x].pc = "marked"]
       ELSE /\ ex' = [ex EXCEPT ![x].pc = "done", ![x].result = "raised"]
            /\ UNCHANGED auth_codes
    /\ UNCHANGED <<db_vars, stripe, worker_vars, rate_vars, tokens>>

\* exchange_authorization_code: create_access_token saves an OAuthToken and
\* the token response is returned.
ExchangeCreateToken(x, db_ok) ==
    /\ ex[x].pc = "marked"
    /\ IF db_ok
       THEN /\ tokens' = [tokens EXCEPT ![ex[x].code] = @ + 1]
            /\ ex' = [ex EXCEPT ![x].pc = "done", ![x].result = "token"]
       ELSE /\ ex' = [ex EXCEPT ![x].pc = "done", ![x].result = "raised"]
            /\ UNCHANGED tokens
    /\ UNCHANGED <<db_vars, stripe, worker_vars, rate_vars, auth_codes>>

\* The token endpoint has answered the request.
ExchangeReturn(x) ==
    /\ ex[x].pc = "done"
    /\ ex' = [ex EXCEPT ![x] = NoExchange]
    /\ UNCHANGED <<db_vars, stripe, worker_vars, rate_vars, auth_codes, tokens>>

\* Time passes.
Tick ==
    /\ now < MaxTime
    /\ now' = now + 1
    /\ UNCHANGED <<db_vars, stripe, worker_vars, oauth_vars, rate_limits, rl>>

\* A request of the account arrives and the caller runs check_rate_limit.
CheckRateLimit(c, store_ok) ==
    /\ rl[c].pc = "idle"
    /\ LET r == check_rate_limit(rate_limits, now, store_ok)
       IN  rl' = [rl EXCEPT ![c] =
                 [@ EXCEPT !.pc = "checked", !.result = r, !.at = now,
                           !.error = ~store_ok,
                           !.denials = IF r.allowed THEN @ ELSE Min(@ + 1, MaxAttempts),
                           !.denied_retry =
                               IF r.allowed THEN @ ELSE r.retry_after]]
    /\ UNCHANGED <<db_vars, stripe, worker_vars, oauth_vars, now, rate_limits>>

\* A denied request ends as rate limited.
RateLimited(c) ==
    /\ rl[c].pc = "checked"
    /\ ~rl[c].result.allowed
    /\ rl' = [rl EXCEPT ![c].pc = "idle"]
    /\ UNCHANGED <<db_vars, stripe, worker_vars, oauth_vars, now, rate_limits>>

\* An allowed request is admitted: the caller runs record_attempt.
RecordAttempt(c, store_ok) ==
    /\ rl[c].pc = "checked"
    /\ rl[c].result.allowed
    /\ rate_limits' = record_attempt(rate_limits, now, store_ok).records
    /\ rl' = [rl EXCEPT ![c] =
             [@ EXCEPT !.pc = IF record_attempt(rate_limits, now, store_ok).raised
                              THEN "failed" ELSE "recorded",
                       !.error = ~store_ok,
                       !.admitted = store_ok /\ ~rl[c].error,
                       !.admitted_at = rl[c].at,
                       !.denials = 0,
                       !.denied_retry = 0]]
    /\ UNCHANGED <<db_vars, stripe, worker_vars, oauth_vars, now>>

\* The admitted request goes on to the generation and returns.
Admitted(c) ==
    /\ rl[c].pc = "recorded"
    /\ rl' = [rl EXCEPT ![c].pc = "idle"]
    /\ UNCHANGED <<db_vars, stripe, worker_vars, oauth_vars, now, rate_limits>>

\* ------------------------------------------------------------------- Init
NoReq == [quality |-> "", brushstrokes_needed |-> 0, current_balance |-> 0,
          allowance |-> 0, generation |-> 0, generator_called |-> FALSE,
          usage_tx |-> 0, recorded |-> "none"]

NoResult == [kind |-> "none", success |-> FALSE, required |-> 0,
             brushstrokes_used |-> 0, brushstrokes_remaining |-> 0,
             remaining_image_slots |-> 0]

Init ==
    /\ user = NewUser
    /\ user_exists = TRUE
    /\ transactions = <<>>
    /\ generations = <<>>
    /\ stripe = [status |-> "none", period |-> NoPeriod, price |-> "basic",
                 paid |-> "basic"]
    /\ pc = [p \in Workers |-> "idle"]
    /\ loc = [p \in Workers |-> NewUser]
    /\ dirty = [p \in Workers |-> {}]
    /\ req = [p \in Workers |-> NoReq]
    /\ result = [p \in Workers |-> NoResult]
    /\ InitRateLimits
    /\ InitOAuth

\* --------------------------------------------------- the provider (Stripe)
\* The customer completes a subscription checkout at Stripe.
CustomerSubscribes(tier) ==
    /\ user_exists
    /\ stripe.status = "none"
    /\ stripe' = [status |-> "active", period |-> 1, price |-> tier, paid |-> tier]
    /\ UNCHANGED <<db_vars, worker_vars>>
    /\ UNCHANGED <<rate_vars, oauth_vars>>

\* Stripe starts the next billing period of the active subscription and
\* invoices it at the subscription's current price.
StripeRenews ==
    /\ stripe.status = "active"
    /\ stripe.period < MaxPeriod
    /\ stripe' = [stripe EXCEPT !.period = @ + 1, !.paid = stripe.price]
    /\ UNCHANGED <<db_vars, worker_vars>>
    /\ UNCHANGED <<rate_vars, oauth_vars>>

\* The subscription ends at Stripe (canceled, unpaid, ...).
StripeCancels ==
    /\ stripe.status = "active"
    /\ stripe' = [stripe EXCEPT !.status = "canceled"]
    /\ UNCHANGED <<db_vars, worker_vars>>
    /\ UNCHANGED <<rate_vars, oauth_vars>>

\* The customer moves the active subscription to another plan in the Stripe
\* customer portal (stripe_utils.create_portal_session); the period goes on.
StripePriceChanges(tier) ==
    /\ stripe.status = "active"
    /\ stripe.price # tier
    /\ stripe' = [stripe EXCEPT !.price = tier]
    /\ UNCHANGED <<db_vars, worker_vars>>
    /\ UNCHANGED <<rate_vars, oauth_vars>>

\* ------------------------------------------------------- checkout handlers
\* stripe_utils.handle_checkout_completed, session.mode == "subscription"
handle_checkout_subscription(u) ==
    set_subscription_id(u, SubId, stripe.period)

HandleCheckoutSubscription ==
    /\ user_exists
    /\ stripe.status # "none"
    /\ user' = handle_checkout_subscription(user)
    /\ UNCHANGED <<user_exists, transactions, generations, stripe,
                   worker_vars>>
    /\ UNCHANGED <<rate_vars, oauth_vars>>

\* stripe_utils.handle_checkout_completed, session.mode == "payment":
\* the transaction appended for the pack
purchase_transaction(u, brushstrokes, allowance) ==
    BrushstrokeTransaction("purchase", brushstrokes,
                           total_brushstrokes(u, allowance), 0)

HandleCheckoutPayment ==
    /\ user_exists
    /\ PackBrushstrokes > 0
    /\ \E reachable \in BOOLEAN :
         LET u == add_purchased_brushstrokes(user, PackBrushstrokes)
             allowance == get_subscription_info(u, reachable)
         IN  /\ transactions' =
                   Append(transactions,
                          purchase_transaction(u, PackBrushstrokes, allowance))
             /\ user' = u
    /\ UNCHANGED <<user_exists, generations, stripe, worker_vars>>
    /\ UNCHANGED <<rate_vars, oauth_vars>>

\* ------------------------------------------------------------------ admin
\* admin_service.gift_tokens: the transaction appended
gift_transaction(u, amount) ==
    BrushstrokeTransaction("admin_grant", amount, u.purchased_brushstrokes, 0)

\* admin_service.gift_tokens
gift_tokens(amount) ==
    /\ user_exists
    /\ Len(transactions) < MaxTransactions
    /\ user.purchased_brushstrokes + amount <= MaxPurchased
    /\ LET u == add_purchased_brushstrokes(user, amount)
       IN  /\ user' = u
           /\ transactions' = Append(transactions, gift_transaction(u, amount))
    /\ UNCHANGED <<user_exists, generations, stripe, worker_vars>>
    /\ UNCHANGED <<rate_vars, oauth_vars>>

\* A removal that takes the amount asked for, whatever is there.
remove_tokens_unclamped(amount) ==
    /\ user_exists
    /\ Len(transactions) < MaxTransactions
    /\ LET u == [user EXCEPT !.purchased_brushstrokes = @ - amount]
       IN  /\ user' = u
           /\ transactions' =
                 Append(transactions,
                        BrushstrokeTransaction("admin_grant", -amount,
                                               u.purchased_brushstrokes, 0))
    /\ UNCHANGED <<user_exists, generations, stripe, worker_vars>>
    /\ UNCHANGED <<rate_vars, oauth_vars>>

\* A removal that rewrites the latest transaction instead of appending one.
remove_tokens_rewriting(amount) ==
    /\ user_exists
    /\ transactions # <<>>
    /\ LET amount_to_remove == Min(amount, user.purchased_brushstrokes)
           u == [user EXCEPT !.purchased_brushstrokes = @ - amount_to_remove]
       IN  /\ user' = u
           /\ transactions' =
                 [transactions EXCEPT ![Len(transactions)] =
                     BrushstrokeTransaction("admin_grant", -amount_to_remove,
                                            u.purchased_brushstrokes, 0)]
    /\ UNCHANGED <<user_exists, generations, stripe, worker_vars>>
    /\ UNCHANGED <<rate_vars, oauth_vars>>

\* admin_service.remove_tokens
remove_tokens(amount) ==
    /\ user_exists
    /\ Len(transactions) < MaxTransactions
    /\ LET amount_to_remove == Min(amount, user.purchased_brushstrokes)
           u == [user EXCEPT !.purchased_brushstrokes = @ - amount_to_remove]
       IN  /\ user' = u
           /\ transactions' =
                 Append(transactions,
                        BrushstrokeTransaction("admin_grant", -amount_to_remove,
                                               u.purchased_brushstrokes, 0))
    /\ UNCHANGED <<user_exists, generations, stripe, worker_vars>>
    /\ UNCHANGED <<rate_vars, oauth_vars>>

\* stripe_utils.change_subscription_plan, to a plan other than the current one
change_subscription_plan(new_price_id) ==
    /\ user_exists
    /\ user.stripe_subscription_id # NoSub
    /\ new_price_id \in Tiers
    /\ stripe.status = "active"
    /\ stripe.price # new_price_id
    /\ stripe' = [stripe EXCEPT !.price = new_price_id]
    /\ user' = [user EXCEPT !.allowance_used_this_period = 0]
    /\ UNCHANGED <<user_exists, transactions, generations, worker_vars>>
    /\ UNCHANGED <<rate_vars, oauth_vars>>

\* Steps of delete_user_account whose failure makes it return early.
DeletionFailures == {"none", "generations", "transactions", "user"}

\* account_service.delete_user_account, with no request of the account in
\* flight: the Stripe subscription is cancelled, then the generations, the
\* transactions and the user record are deleted in that order; a delete that
\* raises (failed_at) ends the call with what was deleted before it gone.
delete_user_account(failed_at) ==
    /\ user_exists
    /\ \A p \in Workers : pc[p] = "idle"
    /\ stripe' = IF user.stripe_subscription_id # NoSub /\ stripe.status = "active"
                 THEN [stripe EXCEPT !.status = "canceled"]
                 ELSE stripe
    /\ generations' = IF failed_at = "generations" THEN generations ELSE <<>>
    /\ transactions' = IF failed_at \in {"generations", "transactions"}
                       THEN transactions ELSE <<>>
    /\ user_exists' = (failed_at # "none")
    /\ UNCHANGED <<user, worker_vars>>
    /\ UNCHANGED <<rate_vars, oauth_vars>>

\* ------------------------------------------------------------ the archive
Generation(id, brushstrokes_used) ==
    [id |-> id, brushstrokes_used |-> brushstrokes_used, image_data |-> TRUE]

\* Completed generations of the account that still hold image data.
WithImage(gens) == {i \in 1..Len(gens) : gens[i].image_data}

\* Generations whose gen.save() may raise while their image data is cleared.
EvictionFailures(max_generations) == SUBSET (1..max_generations)

\* An eviction that deletes the generation documents beyond the limit.
enforce_image_limit_deleting(gens, failing) ==
    SelectSeq(gens,
        LAMBDA g : ~(/\ g.image_data
                     /\ Cardinality({j \in WithImage(gens) : gens[j].id > g.id})
                            >= MAX_IMAGES_PER_USER
                     /\ g.id \notin failing))

\* image_service.enforce_image_limit: the newest MAX_IMAGES_PER_USER keep
\* their image data, the older ones lose it; the records stay.  A generation
\* whose save raises (failing) keeps its image data: the error is logged and
\* the loop goes on.  A query that raises leaves all of them as they are,
\* which is the outcome of every save failing.
enforce_image_limit(gens, failing) ==
    [i \in 1..Len(gens) |->
        IF /\ gens[i].image_data
           /\ Cardinality({j \in WithImage(gens) : j > i}) >= MAX_IMAGES_PER_USER
           /\ gens[i].id \notin failing
        THEN [gens[i] EXCEPT !.image_data = FALSE]
        ELSE gens[i]]

\* image_service.save_generation_with_image
save_generation_with_image(gens, brushstrokes_used, failing) ==
    enforce_image_limit(Append(gens, Generation(Len(gens) + 1, brushstrokes_used)),
                        failing)

\* A slot count that is not floored at zero.
get_remaining_image_slots_signed(gens, db_ok) ==
    IF db_ok
    THEN MAX_IMAGES_PER_USER - Cardinality(WithImage(gens))
    ELSE MAX_IMAGES_PER_USER

\* image_service.get_remaining_image_slots; db_ok is FALSE when the count
\* raises, and the maximum is returned
get_remaining_image_slots(gens, db_ok) ==
    IF db_ok
    THEN Max(0, MAX_IMAGES_PER_USER - Cardinality(WithImage(gens)))
    ELSE MAX_IMAGES_PER_USER

\* ------------------------------------------------------------ the request
\* models.get_or_create_user: the route loads the account's User document.
ReqLoad(p) ==
    /\ user_exists
    /\ pc[p] = "idle"
    /\ pc' = [pc EXCEPT ![p] = "loaded"]
    /\ loc' = [loc EXCEPT ![p] = user]
    /\ dirty' = [dirty EXCEPT ![p] = {}]
    /\ UNCHANGED <<db_vars, stripe, req, result>>
    /\ UNCHANGED <<rate_vars, oauth_vars>>

\* A reconciler that resets the allowance on every run of an active
\* subscription, without comparing the period starts.
check_and_renew_subscription_every_run(u, reachable) ==
    IF u.stripe_subscription_id = NoSub THEN u
    ELSE IF ~reachable THEN u
    ELSE IF stripe.status \notin {"active", "trialing"} THEN clear_subscription(u)
    ELSE IF stripe.period = NoPeriod THEN u
    ELSE reset_allowance(u, stripe.period)

\* stripe_utils.check_and_renew_subscription on the in-memory document
check_and_renew_subscription(u, reachable) ==
    IF u.stripe_subscription_id = NoSub THEN u
    ELSE IF ~reachable THEN u
    ELSE IF stripe.status \notin {"active", "trialing"} THEN clear_subscription(u)
    ELSE IF stripe.period = NoPeriod THEN u
    ELSE IF u.current_period_start # NoPeriod
            /\ u.current_period_start = stripe.period THEN u
    ELSE reset_allowance(u, stripe.period)

\* A reconciler run that logs a renewal on every run of an active
\* subscription, whether or not the period changed.
ReqRenewLogging(p) ==
    /\ pc[p] = "loaded"
    /\ \E reachable \in BOOLEAN :
         LET u == check_and_renew_subscription(loc[p], reachable)
         IN  /\ loc' = [loc EXCEPT ![p] = u]
             /\ user' = save(user, u, Changed(loc[p], u))
             /\ transactions' =
                   IF /\ reachable
                      /\ u.stripe_subscription_id # NoSub
                      /\ Len(transactions) < MaxTransactions
                   THEN Append(transactions,
                               BrushstrokeTransaction("subscription_renewal",
                                   get_subscription_tiers[stripe.price],
                                   total_brushstrokes(u, get_subscription_tiers[stripe.price]),
                                   0))
                   ELSE transactions
    /\ pc' = [pc EXCEPT ![p] = "renewed"]
    /\ UNCHANGED <<user_exists, generations, stripe, dirty, req, result>>
    /\ UNCHANGED <<rate_vars, oauth_vars>>

\* The route runs the reconciler: a Stripe fetch, then user.save().
ReqRenew(p) ==
    /\ pc[p] = "loaded"
    /\ \E reachable \in BOOLEAN :
         LET u == check_and_renew_subscription(loc[p], reachable)
         IN  /\ loc' = [loc EXCEPT ![p] = u]
             /\ user' = save(user, u, Changed(loc[p], u))
    /\ pc' = [pc EXCEPT ![p] = "renewed"]
    /\ UNCHANGED <<user_exists, transactions, generations, stripe,
                   dirty, req, result>>
    /\ UNCHANGED <<rate_vars, oauth_vars>>

\* A request that generates nothing (login, dashboard) ends here.
ReqEnd(p) ==
    /\ pc[p] \in {"renewed", "done"}
    /\ pc' = [pc EXCEPT ![p] = "idle"]
    /\ loc' = [loc EXCEPT ![p] = NewUser]
    /\ dirty' = [dirty EXCEPT ![p] = {}]
    /\ req' = [req EXCEPT ![p] = NoReq]
    /\ result' = [result EXCEPT ![p] = NoResult]
    /\ UNCHANGED <<db_vars, stripe>>
    /\ UNCHANGED <<rate_vars, oauth_vars>>

\* GenerationResult(success=False, ...) of generate_image
Failure(kind, required, current_balance) ==
    [kind |-> kind, success |-> FALSE, required |-> required,
     brushstrokes_used |-> 0, brushstrokes_remaining |-> current_balance,
     remaining_image_slots |-> 0]

\* A balance check that looks at the purchased brushstrokes only.
check_purchased_only(u, brushstrokes_needed, reachable) ==
    [has_sufficient |-> ~(u.purchased_brushstrokes < brushstrokes_needed),
     current_balance |-> u.purchased_brushstrokes,
     monthly_allowance |-> get_subscription_info(u, reachable)]

\* generation_service.check_brushstroke_balance: [has_sufficient, current_balance]
check_brushstroke_balance(u, brushstrokes_needed, reachable) ==
    LET monthly_allowance == get_subscription_info(u, reachable)
        current_balance == total_brushstrokes(u, monthly_allowance)
    IN  [has_sufficient |-> ~(current_balance < brushstrokes_needed),
         current_balance |-> current_balance,
         monthly_allowance |-> monthly_allowance]

\* What the caller of generate_image gets when an exception leaves it.
Raised == [NoResult EXCEPT !.kind = "exception"]

\* generate_image up to the balance check; the cost lookup
\* QUALITY_COSTS.get(ImageQuality(quality), 3) stands outside every try block
BalanceCheck(p, quality) ==
    /\ pc[p] = "renewed"
    /\ IF ImageQuality(quality).raises
       THEN /\ pc' = [pc EXCEPT ![p] = "done"]
            /\ result' = [result EXCEPT ![p] = Raised]
            /\ UNCHANGED req
       ELSE \E reachable \in BOOLEAN :
         LET brushstrokes_needed == QUALITY_COSTS[ImageQuality(quality).value]
             chk == check_brushstroke_balance(loc[p], brushstrokes_needed, reachable)
         IN  /\ req' = [req EXCEPT ![p] =
                    [NoReq EXCEPT !.quality = quality,
                                  !.brushstrokes_needed = brushstrokes_needed,
                                  !.current_balance = chk.current_balance,
                                  !.allowance = chk.monthly_allowance]]
             /\ IF chk.has_sufficient
                THEN /\ pc' = [pc EXCEPT ![p] = "checked"]
                     /\ UNCHANGED result
                ELSE /\ pc' = [pc EXCEPT ![p] = "done"]
                     /\ result' = [result EXCEPT ![p] =
                            Failure("insufficient", brushstrokes_needed,
                                    chk.current_balance)]
    /\ UNCHANGED <<db_vars, stripe, loc, dirty>>
    /\ UNCHANGED <<rate_vars, oauth_vars>>

\* A generator step that charges the request up front, whatever the outcome.
GenerateChargingFirst(p, outcome) ==
    /\ pc[p] = "checked"
    /\ Len(transactions) < MaxTransactions
    /\ LET debit == use_brushstrokes(user, req[p].brushstrokes_needed,
                                     req[p].allowance)
       IN  /\ user' = debit.user
           /\ transactions' =
                 Append(transactions,
                        BrushstrokeTransaction("usage", -req[p].brushstrokes_needed,
                            total_brushstrokes(debit.user, req[p].allowance), 0))
    /\ req' = [req EXCEPT ![p].generator_called = TRUE]
    /\ IF outcome = "ok"
       THEN /\ pc' = [pc EXCEPT ![p] = "generated"]
            /\ UNCHANGED result
       ELSE /\ pc' = [pc EXCEPT ![p] = "done"]
            /\ result' = [result EXCEPT ![p] =
                   Failure("generation_failed", 0, req[p].current_balance)]
    /\ UNCHANGED <<user_exists, generations, stripe, loc, dirty>>
    /\ UNCHANGED <<rate_vars, oauth_vars>>

\* generate_image from the generator lookup to step 2: an unknown
\* generation_type returns a failure before any generator runs; then
\* generator.get_description and generator.generate_image, either of which
\* may raise
Generate(p, outcome) ==
    /\ pc[p] = "checked"
    /\ req' = [req EXCEPT ![p].generator_called = outcome # "invalid_type"]
    /\ IF outcome = "ok"
       THEN /\ pc' = [pc EXCEPT ![p] = "generated"]
            /\ UNCHANGED result
       ELSE /\ pc' = [pc EXCEPT ![p] = "done"]
            /\ result' = [result EXCEPT ![p] =
                   Failure(IF outcome = "invalid_type"
                           THEN "invalid_generation_type"
                           ELSE "generation_failed", 0, req[p].current_balance)]
    /\ UNCHANGED <<db_vars, stripe, loc, dirty>>
    /\ UNCHANGED <<rate_vars, oauth_vars>>

\* An archive step that goes on to the debit although the save raised.
ArchiveIgnoringFailure(p, db_ok, failing) ==
    /\ pc[p] = "generated"
    /\ IF db_ok
       THEN /\ generations' =
                 save_generation_with_image(generations, req[p].brushstrokes_needed,
                                            failing)
            /\ req' = [req EXCEPT ![p].generation = Len(generations) + 1]
       ELSE UNCHANGED <<generations, req>>
    /\ pc' = [pc EXCEPT ![p] = "archived"]
    /\ UNCHANGED <<user, user_exists, transactions, stripe, loc, dirty, result>>
    /\ UNCHANGED <<rate_vars, oauth_vars>>

\* generate_image step 3: save_generation_with_image, which may raise
Archive(p, db_ok, failing) ==
    /\ pc[p] = "generated"
    /\ IF db_ok
       THEN /\ generations' =
                 save_generation_with_image(generations, req[p].brushstrokes_needed,
                                            failing)
            /\ req' = [req EXCEPT ![p].generation = Len(generations) + 1]
            /\ pc' = [pc EXCEPT ![p] = "archived"]
            /\ UNCHANGED result
       ELSE /\ pc' = [pc EXCEPT ![p] = "done"]
            /\ result' = [result EXCEPT ![p] =
                   Failure("persist_failed", 0, req[p].current_balance)]
            /\ UNCHANGED <<generations, req>>
    /\ UNCHANGED <<user, user_exists, transactions, stripe, loc, dirty>>
    /\ UNCHANGED <<rate_vars, oauth_vars>>

\* A usage transaction that records the balance from before the debit.
usage_transaction_before(u, brushstrokes_used, allowance, generation) ==
    BrushstrokeTransaction("usage", -brushstrokes_used,
                           total_brushstrokes(u, allowance) + brushstrokes_used,
                           generation)

\* stripe_utils.record_generation: the usage transaction it appends
usage_transaction(u, brushstrokes_used, allowance, generation) ==
    BrushstrokeTransaction("usage", -brushstrokes_used,
                           total_brushstrokes(u, allowance), generation)

\* generate_image step 4, stripe_utils.record_generation up to
\* transaction.save(): the allowance is fetched, the in-memory document is
\* debited and the usage transaction is written.  It returns False on an
\* insufficient balance; a write that raises is caught by generate_image.
RecordGeneration(p, reachable, db_ok) ==
    /\ pc[p] = "archived"
    /\ LET allowance == get_subscription_info(loc[p], reachable)
           brushstrokes_used == req[p].brushstrokes_needed
           debit == use_brushstrokes(loc[p], brushstrokes_used, allowance)
       IN  IF ~debit.ok
           THEN /\ req' = [req EXCEPT ![p].allowance = allowance,
                                      ![p].recorded = "false"]
                /\ pc' = [pc EXCEPT ![p] = "settled"]
                /\ UNCHANGED <<transactions, loc, dirty>>
           ELSE /\ loc' = [loc EXCEPT ![p] = debit.user]
                /\ dirty' = [dirty EXCEPT ![p] = Changed(loc[p], debit.user)]
                /\ IF db_ok
                   THEN /\ Len(transactions) < MaxTransactions
                        /\ transactions' =
                              Append(transactions,
                                     usage_transaction(debit.user, brushstrokes_used,
                                                       allowance, req[p].generation))
                        /\ req' = [req EXCEPT ![p].allowance = allowance,
                                              ![p].usage_tx = Len(transactions) + 1]
                        /\ pc' = [pc EXCEPT ![p] = "txsaved"]
                   ELSE /\ req' = [req EXCEPT ![p].allowance = allowance,
                                              ![p].recorded = "raised"]
                        /\ pc' = [pc EXCEPT ![p] = "settled"]
                        /\ UNCHANGED transactions
    /\ UNCHANGED <<user, user_exists, generations, stripe, result>>
    /\ UNCHANGED <<rate_vars, oauth_vars>>

\* stripe_utils.record_generation, its closing user.save()
RecordGenerationSave(p, db_ok) ==
    /\ pc[p] = "txsaved"
    /\ IF db_ok
       THEN /\ user' = save(user, loc[p], dirty[p])
            /\ req' = [req EXCEPT ![p].recorded = "ok"]
       ELSE /\ req' = [req EXCEPT ![p].recorded = "raised"]
            /\ UNCHANGED user
    /\ dirty' = [dirty EXCEPT ![p] = {}]
    /\ pc' = [pc EXCEPT ![p] = "settled"]
    /\ UNCHANGED <<user_exists, transactions, generations, stripe,
                   loc, result>>
    /\ UNCHANGED <<rate_vars, oauth_vars>>

\* GenerationResult(success=True, ...) of generate_image
Success(brushstrokes_needed, remaining_brushstrokes, remaining_slots) ==
    [kind |-> "success", success |-> TRUE, required |-> 0,
     brushstrokes_used |-> brushstrokes_needed,
     brushstrokes_remaining |-> remaining_brushstrokes,
     remaining_image_slots |-> remaining_slots]

\* generate_image after step 4: user.reload(), the balance and the slots are
\* read and the result is returned whatever record_generation did; a reload
\* that raises ends in the outer handler.
Finish(p, reload_ok, reachable, slots_ok) ==
    /\ pc[p] = "settled"
    /\ IF reload_ok
       THEN /\ loc' = [loc EXCEPT ![p] = user]
            /\ result' = [result EXCEPT ![p] =
                  Success(req[p].brushstrokes_needed,
                          total_brushstrokes(user, get_subscription_info(user, reachable)),
                          get_remaining_image_slots(generations, slots_ok))]
       ELSE /\ result' = [result EXCEPT ![p] =
                  Failure("unexpected", 0, req[p].current_balance)]
            /\ UNCHANGED loc
    /\ pc' = [pc EXCEPT ![p] = "done"]
    /\ UNCHANGED <<db_vars, stripe, dirty, req>>
    /\ UNCHANGED <<rate_vars, oauth_vars>>

\* ------------------------------------------------------------------- Next
\* The ledger under checkout, admin operations, account deletion and
\* sequential requests; plan changes are explored in SpecRecon.
Next ==
    \/ \E tier \in Tiers : CustomerSubscribes(tier)
    \/ StripeRenews
    \/ StripeCancels
    \/ HandleCheckoutSubscription
    \/ /\ Len(transactions) < MaxTransactions
       /\ user.purchased_brushstrokes + PackBrushstrokes <= MaxPurchased
       /\ HandleCheckoutPayment
    \/ \E amount \in 1..MaxAdminAmount : gift_tokens(amount)
    \/ \E amount \in 1..MaxAdminAmount : remove_tokens(amount)
    \/ \E failed_at \in DeletionFailures : delete_user_account(failed_at)
    \/ \E p \in Sequential : ReqLoad(p)
    \/ \E p \in Sequential : ReqRenew(p)
    \/ \E p \in Sequential : ReqEnd(p)
    \/ \E p \in Sequential, quality \in Qualities : BalanceCheck(p, quality)
    \/ \E p \in Sequential, outcome \in {"ok", "description_failed", "image_failed"} :
          Generate(p, outcome)
    \/ \E p \in Sequential, db_ok \in BOOLEAN,
          failing \in EvictionFailures(MaxGenerations) :
          Len(generations) < MaxGenerations /\ Archive(p, db_ok, failing)
    \/ \E p \in Sequential, reachable \in BOOLEAN, db_ok \in BOOLEAN :
          RecordGeneration(p, reachable, db_ok)
    \/ \E p \in Sequential, db_ok \in BOOLEAN : RecordGenerationSave(p, db_ok)
    \/ \E p \in Sequential, reload_ok \in BOOLEAN, reachable \in BOOLEAN,
          slots_ok \in BOOLEAN :
          Finish(p, reload_ok, reachable, slots_ok)

Spec == Init /\ [][Next]_vars

\* ------------------------------------------------- concurrent requests
\* Two requests of one subscribed account run concurrently; the provider and
\* the database answer every call, and nothing else touches the account.
InitConc ==
    /\ \E tier \in Tiers :
         /\ stripe = [status |-> "active", period |-> 1, price |-> tier,
                      paid |-> tier]
         /\ user = handle_checkout_subscription(NewUser)
    /\ user_exists = TRUE
    /\ transactions = <<>>
    /\ generations = <<>>
    /\ pc = [p \in Workers |-> "idle"]
    /\ loc = [p \in Workers |-> NewUser]
    /\ dirty = [p \in Workers |-> {}]
    /\ req = [p \in Workers |-> NoReq]
    /\ result = [p \in Workers |-> NoResult]
    /\ InitRateLimits
    /\ InitOAuth

NextConc ==
    \/ \E p \in Workers : ReqLoad(p)
    \/ \E p \in Workers : ReqRenew(p)
    \/ \E p \in Workers : ReqEnd(p)
    \/ \E p \in Workers, quality \in Qualities : BalanceCheck(p, quality)
    \/ \E p \in Workers : Generate(p, "ok")
    \/ \E p \in Workers :
          Len(generations) < MaxConcurrentGenerations /\ Archive(p, TRUE, {})
    \/ \E p \in Workers : RecordGeneration(p, TRUE, TRUE)
    \/ \E p \in Workers : RecordGenerationSave(p, TRUE)
    \/ \E p \in Workers : Finish(p, TRUE, TRUE, TRUE)

SpecConc == InitConc /\ [][NextConc]_vars

\* ------------------------------------------------- the debit on its own
\* User.use_brushstrokes and User.total_brushstrokes applied to an account
\* document, an allowance and an amount drawn from bounded sets.  The request
\* of worker w1 has stored its artifact and is about to record the usage;
\* user keeps the document as it was before the debit.
InitDebit ==
    /\ \E purchased \in 0..MaxDebitPurchased, used \in 0..MaxDebitUsed,
          sub \in {NoSub, SubId} :
         /\ sub = NoSub => used = 0
         /\ user = [purchased_brushstrokes |-> purchased,
                    stripe_subscription_id |-> sub,
                    current_period_start |-> IF sub = NoSub THEN NoPeriod ELSE 1,
                    allowance_used_this_period |-> used]
    /\ \E tier \in Tiers :
         stripe = [status |-> "active", period |-> 1, price |-> tier, paid |-> tier]
    /\ user_exists = TRUE
    /\ transactions = <<>>
    /\ \E amount \in 1..MaxDebitAmount, allowance \in 0..MaxDebitAllowance :
         /\ req = [p \in Workers |->
                     IF p \in Sequential
                     THEN [NoReq EXCEPT !.brushstrokes_needed = amount,
                                        !.allowance = allowance,
                                        !.generation = 1,
                                        !.generator_called = TRUE]
                     ELSE NoReq]
         /\ generations = <<Generation(1, amount)>>
    /\ pc = [p \in Workers |-> IF p \in Sequential THEN "archived" ELSE "idle"]
    /\ loc = [p \in Workers |-> IF p \in Sequential THEN user ELSE NewUser]
    /\ dirty = [p \in Workers |-> {}]
    /\ result = [p \in Workers |-> NoResult]
    /\ InitRateLimits
    /\ InitOAuth

\* user.use_brushstrokes(amount, allowance) on the in-memory document
UseBrushstrokes(p) ==
    /\ pc[p] = "archived"
    /\ LET debit == use_brushstrokes(loc[p], req[p].brushstrokes_needed,
                                     req[p].allowance)
       IN  /\ loc' = [loc EXCEPT ![p] = debit.user]
           /\ req' = [req EXCEPT ![p].recorded = IF debit.ok THEN "ok" ELSE "false"]
    /\ pc' = [pc EXCEPT ![p] = "debited"]
    /\ UNCHANGED <<db_vars, stripe, dirty, result>>
    /\ UNCHANGED <<rate_vars, oauth_vars>>

\* user.total_brushstrokes(allowance) on the in-memory document
TotalBrushstrokes(p) ==
    /\ pc[p] \in {"archived", "debited"}
    /\ result' = [result EXCEPT ![p] =
          [NoResult EXCEPT !.kind = "balance",
                           !.brushstrokes_remaining =
                               total_brushstrokes(loc[p], req[p].allowance)]]
    /\ pc' = [pc EXCEPT ![p] = "read"]
    /\ UNCHANGED <<db_vars, stripe, loc, dirty, req>>
    /\ UNCHANGED <<rate_vars, oauth_vars>>

NextDebit ==
    \/ \E p \in Sequential : UseBrushstrokes(p)
    \/ \E p \in Sequential : TotalBrushstrokes(p)
    \/ \E p \in Sequential, reachable \in BOOLEAN, db_ok \in BOOLEAN :
          RecordGeneration(p, reachable, db_ok)
    \/ \E p \in Sequential, db_ok \in BOOLEAN : RecordGenerationSave(p, db_ok)

SpecDebit == InitDebit /\ [][NextDebit]_vars

\* ------------------------------------------------------ the reconciler
\* One account with its subscription life at the provider (checkout, plan
\* changes, renewals, cancellation), pack purchases and sequential requests,
\* each of which runs the reconciler before anything else.
NextRecon ==
    \/ \E tier \in Tiers : CustomerSubscribes(tier)
    \/ \E tier \in Tiers : StripePriceChanges(tier)
    \/ StripeRenews
    \/ StripeCancels
    \/ HandleCheckoutSubscription
    \/ /\ Len(transactions) < MaxTransactions
       /\ user.purchased_brushstrokes + PackBrushstrokes <= MaxPurchased
       /\ HandleCheckoutPayment
    \/ \E new_price_id \in Tiers : change_subscription_plan(new_price_id)
    \/ \E p \in Sequential : ReqLoad(p)
    \/ \E p \in Sequential : ReqRenew(p)
    \/ \E p \in Sequential : ReqEnd(p)
    \/ \E p \in Sequential, quality \in Qualities : BalanceCheck(p, quality)
    \/ \E p \in Sequential, outcome \in {"ok", "image_failed"} : Generate(p, outcome)
    \/ \E p \in Sequential, db_ok \in BOOLEAN,
          failing \in EvictionFailures(MaxGenerations) :
          Len(generations) < MaxGenerations /\ Archive(p, db_ok, failing)
    \/ \E p \in Sequential, reachable \in BOOLEAN, db_ok \in BOOLEAN :
          RecordGeneration(p, reachable, db_ok)
    \/ \E p \in Sequential, db_ok \in BOOLEAN : RecordGenerationSave(p, db_ok)
    \/ \E p \in Sequential, reload_ok \in BOOLEAN, reachable \in BOOLEAN,
          slots_ok \in BOOLEAN :
          Finish(p, reload_ok, reachable, slots_ok)

SpecRecon == Init /\ [][NextRecon]_vars

\* ------------------------------------------- after an observed cancellation
\* The account's subscription has ended at the provider and the reconciler
\* has seen it and cleared the subscription; no new subscription is created.
\* Checkout redirects (/checkout-success with a paid session id) and requests
\* keep arriving.
InitCleared ==
    /\ \E tier \in Tiers :
         stripe = [status |-> "canceled", period |-> 1, price |-> tier,
                   paid |-> tier]
    /\ user = clear_subscription(handle_checkout_subscription(NewUser))
    /\ user_exists = TRUE
    /\ transactions = <<>>
    /\ generations = <<>>
    /\ pc = [p \in Workers |-> "idle"]
    /\ loc = [p \in Workers |-> NewUser]
    /\ dirty = [p \in Workers |-> {}]
    /\ req = [p \in Workers |-> NoReq]
    /\ result = [p \in Workers |-> NoResult]
    /\ InitRateLimits
    /\ InitOAuth

NextCleared ==
    \/ HandleCheckoutSubscription
    \/ /\ Len(transactions) < MaxTransactions
       /\ user.purchased_brushstrokes + PackBrushstrokes <= MaxPurchased
       /\ HandleCheckoutPayment
    \/ \E p \in Sequential : ReqLoad(p)
    \/ \E p \in Sequential : ReqRenew(p)
    \/ \E p \in Sequential : ReqEnd(p)
    \/ \E p \in Sequential, quality \in Qualities : BalanceCheck(p, quality)
    \/ \E p \in Sequential, outcome \in {"ok", "image_failed"} : Generate(p, outcome)
    \/ \E p \in Sequential, db_ok \in BOOLEAN,
          failing \in EvictionFailures(MaxGenerations) :
          Len(generations) < MaxGenerations /\ Archive(p, db_ok, failing)
    \/ \E p \in Sequential, reachable \in BOOLEAN, db_ok \in BOOLEAN :
          RecordGeneration(p, reachable, db_ok)
    \/ \E p \in Sequential, db_ok \in BOOLEAN : RecordGenerationSave(p, db_ok)
    \/ \E p \in Sequential, reload_ok \in BOOLEAN, reachable \in BOOLEAN,
          slots_ok \in BOOLEAN :
          Finish(p, reload_ok, reachable, slots_ok)

SpecCleared == InitCleared /\ [][NextCleared]_vars

\* ------------------------------------------------------ the rate limiter
\* Requests of one account arrive one after the other; each is checked and,
\* when allowed, recorded before its generation.  The rate-limit store may
\* fail on any call.
NextRate ==
    \/ Tick
    \/ \E c \in SequentialClients, store_ok \in BOOLEAN : CheckRateLimit(c, store_ok)
    \/ \E c \in SequentialClients : RateLimited(c)
    \/ \E c \in SequentialClients, store_ok \in BOOLEAN :
          Len(rate_limits) < MaxAttempts /\ RecordAttempt(c, store_ok)
    \/ \E c \in SequentialClients : Admitted(c)

SpecRate == Init /\ [][NextRate]_vars

\* Requests of one account arrive concurrently, on two instances or threads;
\* the rate-limit store answers every call.
NextRateConc ==
    \/ now < MaxRaceTime /\ Tick
    \/ \E c \in Clients : CheckRateLimit(c, TRUE)
    \/ \E c \in Clients : RateLimited(c)
    \/ \E c \in Clients : Len(rate_limits) < MaxAttempts /\ RecordAttempt(c, TRUE)
    \/ \E c \in Clients : Admitted(c)

SpecRateConc == Init /\ [][NextRateConc]_vars

\* ------------------------------------------------------------ the archive
\* An account with purchased brushstrokes and no subscription generates more
\* images than the archive keeps, one request after the other; the writes of
\* the archive and of the ledger may fail, and the account may be deleted.
InitArchive ==
    /\ user = add_purchased_brushstrokes(NewUser, MaxArchiveGenerations * CostLow)
    /\ user_exists = TRUE
    /\ transactions = <<>>
    /\ generations = <<>>
    /\ stripe = [status |-> "none", period |-> NoPeriod, price |-> "basic",
                 paid |-> "basic"]
    /\ pc = [p \in Workers |-> "idle"]
    /\ loc = [p \in Workers |-> NewUser]
    /\ dirty = [p \in Workers |-> {}]
    /\ req = [p \in Workers |-> NoReq]
    /\ result = [p \in Workers |-> NoResult]
    /\ InitRateLimits
    /\ InitOAuth

NextArchive ==
    \/ \E failed_at \in DeletionFailures : delete_user_account(failed_at)
    \/ \E p \in Sequential : ReqLoad(p)
    \/ \E p \in Sequential : ReqRenew(p)
    \/ \E p \in Sequential : ReqEnd(p)
    \/ \E p \in Sequential : BalanceCheck(p, "low")
    \/ \E p \in Sequential, outcome \in {"ok", "image_failed"} : Generate(p, outcome)
    \/ \E p \in Sequential, db_ok \in BOOLEAN,
          failing \in EvictionFailures(MaxArchiveGenerations) :
          Len(generations) < MaxArchiveGenerations /\ Archive(p, db_ok, failing)
    \/ \E p \in Sequential, db_ok \in BOOLEAN : RecordGeneration(p, TRUE, db_ok)
    \/ \E p \in Sequential, db_ok \in BOOLEAN : RecordGenerationSave(p, db_ok)
    \/ \E p \in Sequential, slots_ok \in BOOLEAN : Finish(p, TRUE, TRUE, slots_ok)

SpecArchive == InitArchive /\ [][NextArchive]_vars

\* ================================================================ claims
IsPrefix(s, t) == Len(s) <= Len(t) /\ \A i \in 1..Len(s) : t[i] = s[i]

RECURSIVE SumAmounts(_)
SumAmounts(log) ==
    IF log = <<>> THEN 0 ELSE log[Len(log)].amount + SumAmounts(SubSeq(log, 1, Len(log) - 1))

\* The request of worker p has been billed: its usage transaction is in the
\* log and its debit has been saved.
Billed(p) == req[p].usage_tx # 0 /\ req[p].recorded = "ok"

\* The artifact of worker p's request is stored.
Persisted(p) == req[p].generation \in 1..Len(generations)

\* A step that appends a usage transaction.
AppendsUsage ==
    /\ Len(transactions') = Len(transactions) + 1
    /\ transactions'[Len(transactions')].transaction_type = "usage"

C3_FailureLeavesLedger ==
    /\ [](\A p \in Workers :
            result[p].kind \in {"generation_failed", "persist_failed"}
                => /\ req[p].usage_tx = 0
                   /\ req[p].recorded = "none"
                   /\ result[p].success = FALSE)
    /\ [][\A p \in Workers :
            (pc[p] \in {"renewed", "checked", "generated"} /\ pc'[p] # pc[p])
                => (user' = user /\ transactions' = transactions)]_vars

C3_Witness ==
    \E p \in Workers :
        /\ result[p].kind = "persist_failed"
        /\ req[p].generator_called
        /\ total_brushstrokes(user, get_subscription_info(user, TRUE)) > 0

\* C4: a request whose balance at the check is below the tariff ends as
\* insufficient, reporting the tariff as required and the balance as
\* available, without calling the generator, creating an artifact, appending
\* a transaction or changing the account.
C4_InsufficientNoEffect ==
    /\ [](\A p \in Workers :
            result[p].kind = "insufficient"
                => /\ result[p].success = FALSE
                   /\ result[p].required = req[p].brushstrokes_needed
                   /\ result[p].brushstrokes_remaining =
                         Max(0, req[p].allowance - loc[p].allowance_used_this_period)
                            + loc[p].purchased_brushstrokes
                   /\ result[p].brushstrokes_remaining < result[p].required
                   /\ ~req[p].generator_called
                   /\ req[p].generation = 0
                   /\ req[p].usage_tx = 0
                   /\ req[p].recorded = "none")
    /\ [][\A p \in Workers :
            (pc[p] = "renewed" /\ pc'[p] \in {"done", "checked"})
                => /\ UNCHANGED <<user, user_exists, transactions, generations, stripe>>
                   /\ (pc'[p] = "done" <=>
                         total_brushstrokes(loc[p], req'[p].allowance)
                            < req'[p].brushstrokes_needed)]_vars

C4_Witness ==
    \E p \in Workers :
        /\ result[p].kind = "insufficient"
        /\ result[p].brushstrokes_remaining > 0
        /\ req[p].allowance > 0

\* The balance the account's cached fields give under the provider's
\* current allowance.
CachedBalance == total_brushstrokes(user, get_subscription_info(user, TRUE))

\* C5: replaying the account's transactions from account creation gives the
\* account's current cached balance: the deltas sum to it and the latest
\* balance_after equals it.
C5_ReplayReproducesBalance ==
    user_exists =>
        /\ SumAmounts(transactions) = CachedBalance
        /\ transactions # <<>> =>
              transactions[Len(transactions)].balance_after = CachedBalance

\* A step changes a balance field of the stored account.
BalanceChanged ==
    \/ user'.purchased_brushstrokes # user.purchased_brushstrokes
    \/ user'.allowance_used_this_period # user.allowance_used_this_period

\* A step appends one transaction.
LogGrew == Len(transactions') = Len(transactions) + 1

\* The two writes of one record_generation call (transaction.save() and
\* user.save()) are taken as one unit of work.
DebitUnit ==
    \E p \in Workers :
        \/ pc[p] = "archived" /\ pc'[p] = "txsaved" /\ LogGrew /\ ~BalanceChanged
        \/ pc[p] = "txsaved" /\ pc'[p] = "settled" /\ ~LogGrew

\* C6: every change of purchased_brushstrokes or allowance_used_this_period
\* comes with a transaction appended in the same unit of work, and every
\* appended transaction of a non-zero amount with its balance change.
C6_BalanceChangePairedWithTransaction ==
    [][(user_exists' /\ ~DebitUnit) =>
          /\ BalanceChanged => LogGrew
          /\ (LogGrew /\ transactions'[Len(transactions')].amount # 0)
                => BalanceChanged]_vars

\* C7 as claimed: no step removes or changes a transaction of the log.
C7_AppendOnly == [][IsPrefix(transactions, transactions')]_vars

\* C7 as amended: the log is append-only under every operation except
\* account deletion: a step that removes or changes a transaction is a
\* delete_user_account, which deletes all transactions of the account.
C7_AppendOnlyExceptAccountDeletion ==
    [][IsPrefix(transactions, transactions')
        \/ (/\ transactions' = <<>>
            /\ \E failed_at \in DeletionFailures : delete_user_account(failed_at))]_vars

C7_Witness ==
    /\ user_exists
    /\ Len(transactions) >= 2
    /\ Len(generations) >= 1
    /\ user.allowance_used_this_period > 0

\* Usage debits recorded in the log, as a positive total.
RECURSIVE SumUsage(_)
SumUsage(log) ==
    IF log = <<>> THEN 0
    ELSE (IF log[Len(log)].transaction_type = "usage" THEN -log[Len(log)].amount ELSE 0)
            + SumUsage(SubSeq(log, 1, Len(log) - 1))

\* Brushstrokes credited to the account: the allowance of the period and the
\* purchases and grants of the log.
Credited == get_subscription_info(user, TRUE) + (SumAmounts(transactions) + SumUsage(transactions))

\* C2: whatever the interleaving of concurrent requests of one account, the
\* debits that succeeded never add up to more than the balance that was
\* available, and once no debit is in flight the stored balance reflects
\* every one of them (none was overwritten).
C2_NoDoubleSpend ==
    /\ SumUsage(transactions) <= Credited
    /\ (\A p \in Workers : pc[p] \notin {"archived", "txsaved"})
          => CachedBalance = Credited - SumUsage(transactions)

\* The balance as the specification defines it, by cases.
availableBalance(u, allowance) ==
    IF u.allowance_used_this_period >= allowance
    THEN u.purchased_brushstrokes
    ELSE (allowance - u.allowance_used_this_period) + u.purchased_brushstrokes

\* C8: a successful debit of amount a under allowance A adds
\* min(a, max(0, A - usage)) to allowance_used_this_period, which it never
\* takes above A, and takes the rest from purchased_brushstrokes, which stays
\* at or above 0; with A=5, usage=4, purchased=2, a=3 it ends with usage=5,
\* purchased=0 and a balance of 0.
C8_AllowanceFirstThenPurchased ==
    \A p \in Sequential :
        (pc[p] = "debited" /\ req[p].recorded = "ok") =>
            LET a == req[p].brushstrokes_needed
                A == req[p].allowance
                usage == user.allowance_used_this_period
                left == IF A > usage THEN A - usage ELSE 0
                from_allowance == IF a < left THEN a ELSE left
            IN  /\ loc[p].allowance_used_this_period = usage + from_allowance
                /\ loc[p].allowance_used_this_period <= Max(A, usage)
                /\ loc[p].purchased_brushstrokes =
                      user.purchased_brushstrokes - (a - from_allowance)
                /\ loc[p].purchased_brushstrokes >= 0
                /\ availableBalance(loc[p], A) = availableBalance(user, A) - a
                /\ (A = 5 /\ usage = 4 /\ user.purchased_brushstrokes = 2 /\ a = 3)
                      => /\ loc[p].allowance_used_this_period = 5
                         /\ loc[p].purchased_brushstrokes = 0
                         /\ availableBalance(loc[p], A) = 0

C8_Witness ==
    \E p \in Sequential :
        /\ pc[p] = "debited"
        /\ req[p].recorded = "ok"
        /\ req[p].allowance = 5
        /\ req[p].brushstrokes_needed = 3
        /\ user.allowance_used_this_period = 4
        /\ user.purchased_brushstrokes = 2
        /\ loc[p].allowance_used_this_period = 5
        /\ loc[p].purchased_brushstrokes = 0

\* C9: a debit asked for with a balance below the amount fails and changes
\* nothing: use_brushstrokes returns False with the document as it was, and
\* record_generation returns False without writing the account or the log.
C9_FailedDebitChangesNothing ==
    /\ [](\A p \in Sequential :
            (pc[p] = "debited"
                /\ availableBalance(user, req[p].allowance) < req[p].brushstrokes_needed)
                => (req[p].recorded = "false" /\ loc[p] = user))
    /\ [][\A p \in Sequential :
            (/\ pc[p] = "archived"
             /\ pc'[p] \in {"txsaved", "settled"}
             /\ availableBalance(loc[p], req'[p].allowance) < req[p].brushstrokes_needed)
                => /\ req'[p].recorded = "false"
                   /\ req'[p].usage_tx = 0
                   /\ UNCHANGED <<user, transactions, loc>>]_vars

C9_Witness ==
    \E p \in Sequential :
        /\ pc[p] = "settled"
        /\ req[p].recorded = "false"
        /\ req[p].allowance > 0
        /\ availableBalance(user, req[p].allowance) > 0
        /\ transactions = <<>>

\* C10: total_brushstrokes is max(0, allowance - usage) + purchased: the
\* purchased brushstrokes alone once usage has reached or passed the
\* allowance, never less than them.
C10_BalanceFormula ==
    \A p \in Sequential :
        pc[p] = "read" =>
            /\ result[p].brushstrokes_remaining =
                  availableBalance(loc[p], req[p].allowance)
            /\ result[p].brushstrokes_remaining >= loc[p].purchased_brushstrokes
            /\ loc[p].allowance_used_this_period > req[p].allowance
                  => result[p].brushstrokes_remaining = loc[p].purchased_brushstrokes

C10_Witness ==
    \E p \in Sequential :
        /\ pc[p] = "read"
        /\ loc[p].allowance_used_this_period > req[p].allowance
        /\ req[p].allowance > 0
        /\ loc[p].purchased_brushstrokes > 0
        /\ result[p].brushstrokes_remaining = loc[p].purchased_brushstrokes

\* C11: a successful debit of amount a appends exactly one transaction, of
\* type usage, with amount -a and balance_after the balance before the debit
\* minus a, which is the account's balance once the debit is saved; with
\* purchased=10, no subscription and a=3 it is (-3, balance_after 7).
C11_DebitAppendsOneUsage ==
    /\ [][\A p \in Sequential :
            (pc[p] = "archived" /\ pc'[p] = "txsaved") =>
                transactions' =
                    Append(transactions,
                           [transaction_type |-> "usage",
                            amount |-> -req[p].brushstrokes_needed,
                            balance_after |->
                                availableBalance(loc[p], req'[p].allowance)
                                    - req[p].brushstrokes_needed,
                            generation |-> req[p].generation])]_vars
    /\ [](\A p \in Sequential :
            (pc[p] = "settled" /\ req[p].recorded = "ok") =>
                /\ Len(transactions) = 1
                /\ req[p].usage_tx = 1
                /\ transactions[1].balance_after =
                      availableBalance(user, req[p].allowance)
                /\ transactions[1].balance_after >= 0)

C11_Witness ==
    \E p \in Sequential :
        /\ pc[p] = "settled"
        /\ req[p].recorded = "ok"
        /\ req[p].brushstrokes_needed = 3
        /\ user.stripe_subscription_id = NoSub
        /\ user.purchased_brushstrokes = 7
        /\ transactions = <<[transaction_type |-> "usage", amount |-> -3,
                             balance_after |-> 7, generation |-> 1]>>

\* A step that appends a credit: a pack purchase or an admin gift.
AppendsCredit ==
    /\ LogGrew
    /\ transactions'[Len(transactions')].transaction_type \in {"purchase", "admin_grant"}
    /\ transactions'[Len(transactions')].amount > 0

\* C12: a credit (pack purchase in handle_checkout_completed, gift_tokens)
\* adds exactly the credited amount to purchased_brushstrokes and leaves
\* allowance_used_this_period, current_period_start and
\* stripe_subscription_id as they were.
C12_CreditTouchesPurchasedOnly ==
    [][AppendsCredit =>
          /\ user'.purchased_brushstrokes =
                user.purchased_brushstrokes + transactions'[Len(transactions')].amount
          /\ user'.allowance_used_this_period = user.allowance_used_this_period
          /\ user'.current_period_start = user.current_period_start
          /\ user'.stripe_subscription_id = user.stripe_subscription_id]_vars

C12_Witness ==
    /\ Len(transactions) = 2
    /\ transactions[1].transaction_type = "usage"
    /\ transactions[2].transaction_type \in {"purchase", "admin_grant"}
    /\ transactions[2].amount > 0
    /\ user.allowance_used_this_period > 0
    /\ user.stripe_subscription_id = SubId
    /\ user.purchased_brushstrokes = transactions[2].amount

C14_FieldsNonNegative ==
    /\ user.purchased_brushstrokes >= 0
    /\ user.allowance_used_this_period >= 0
    /\ \A p \in Workers :
          /\ loc[p].purchased_brushstrokes >= 0
          /\ loc[p].allowance_used_this_period >= 0

C14_Witness ==
    /\ Len(transactions) = 2
    /\ transactions[1].transaction_type = "usage"
    /\ transactions[2].transaction_type = "admin_grant"
    /\ transactions[2].amount = 0
    /\ user.purchased_brushstrokes = 0
    /\ user.allowance_used_this_period > 0

\* The request of worker p is about to run the reconciler on a document whose
\* active subscription has entered a later period at the provider.
SeesLaterPeriod(p) ==
    /\ pc[p] = "loaded"
    /\ loc[p].stripe_subscription_id # NoSub
    /\ stripe.status = "active"
    /\ loc[p].current_period_start # NoPeriod
    /\ stripe.period > loc[p].current_period_start

\* C15: when the reconciler sees, for an active subscription, a period start
\* at the provider later than the stored one, it sets
\* allowance_used_this_period to 0, stores the provider's period start and
\* leaves purchased_brushstrokes (and the subscription id) as they were, in
\* the document and in the database; a fetch that fails changes nothing.
C15_RolloverResetsUsageOnly ==
    /\ [](\A p \in Workers :
            SeesLaterPeriod(p) =>
                check_and_renew_subscription(loc[p], TRUE) =
                    [loc[p] EXCEPT !.allowance_used_this_period = 0,
                                   !.current_period_start = stripe.period])
    /\ [][\A p \in Workers :
            (SeesLaterPeriod(p) /\ pc'[p] = "renewed") =>
                \/ (loc'[p] = loc[p] /\ user' = user)
                \/ /\ loc'[p] = [loc[p] EXCEPT !.allowance_used_this_period = 0,
                                               !.current_period_start = stripe.period]
                   /\ user' = [user EXCEPT !.allowance_used_this_period = 0,
                                           !.current_period_start = stripe.period]]_vars

C15_Witness ==
    \E p \in Workers :
        /\ pc[p] = "renewed"
        /\ stripe.status = "active"
        /\ stripe.period = MaxPeriod
        /\ user.current_period_start = MaxPeriod
        /\ user.allowance_used_this_period = 0
        /\ user.purchased_brushstrokes > 0
        /\ \E i \in 1..Len(transactions) :
              /\ transactions[i].transaction_type = "usage"
              /\ transactions[i].balance_after = 0

\* A step in which the reconciler applies a rollover to the stored account.
RolloverApplied ==
    \E p \in Workers :
        /\ SeesLaterPeriod(p)
        /\ pc'[p] = "renewed"
        /\ user'.current_period_start = stripe.period
        /\ user.current_period_start # stripe.period

\* C16: every rollover the reconciler applies appends exactly one
\* transaction, of type subscription_renewal, whose amount is the allowance
\* of the new period.
C16_RolloverAppendsRenewal ==
    [][RolloverApplied =>
          /\ LogGrew
          /\ transactions'[Len(transactions')].transaction_type = "subscription_renewal"
          /\ transactions'[Len(transactions')].amount = get_subscription_tiers[stripe.price]]_vars

\* The document worker p holds already reflects the provider's snapshot: a
\* reconciler run has applied it.
InSync(p) == check_and_renew_subscription(loc[p], TRUE) = loc[p]

\* C17: the reconciler is idempotent against an unchanged provider snapshot:
\* a run that fetched the snapshot leaves the account in sync with it, and a
\* run on an account already in sync changes no field of the document or of
\* the stored account and appends no transaction.
C17_ReconcilerIdempotent ==
    [][\A p \in Workers :
          (pc[p] = "loaded" /\ pc'[p] = "renewed") =>
              /\ loc'[p] = check_and_renew_subscription(loc[p], TRUE)
                    => check_and_renew_subscription(loc'[p], TRUE) = loc'[p]
              /\ InSync(p) =>
                    /\ loc'[p] = loc[p]
                    /\ user' = user
                    /\ transactions' = transactions]_vars

C17_Witness ==
    \E p \in Workers :
        /\ pc[p] = "renewed"
        /\ InSync(p)
        /\ stripe.status = "active"
        /\ stripe.period = MaxPeriod
        /\ loc[p].current_period_start = MaxPeriod
        /\ loc[p].allowance_used_this_period > 0
        /\ \E i \in 1..Len(transactions) : transactions[i].transaction_type = "usage"

\* C18: once the reconciler has seen the subscription ended and cleared it,
\* and as long as no new subscription is created, the subscription id stays
\* cleared and every balance computation uses allowance 0 (the balance is the
\* purchased brushstrokes), whether or not the provider can be reached.
C18_ClearedStaysCleared ==
    /\ user.stripe_subscription_id = NoSub
    /\ \A reachable \in BOOLEAN :
          total_brushstrokes(user, get_subscription_info(user, reachable))
              = user.purchased_brushstrokes
    /\ \A p \in Workers : req[p].allowance = 0
    /\ \A i \in 1..Len(transactions) :
          transactions[i].transaction_type = "purchase"
              => transactions[i].balance_after = SumAmounts(SubSeq(transactions, 1, i))

\* The allowance the document u had before the outage: that of its
\* subscription's price, 0 without a subscription.
LastKnownAllowance(u) == get_subscription_info(u, TRUE)

\* C19: when the provider cannot be reached, the balance check works on the
\* last-known allowance: a request whose balance under that allowance covers
\* the tariff is not turned away as insufficient.
C19_OutageFallsBackToCachedAllowance ==
    [][\A p \in Workers :
          (/\ pc[p] = "renewed"
           /\ pc'[p] = "done"
           /\ result'[p].kind = "insufficient")
              => total_brushstrokes(loc[p], LastKnownAllowance(loc[p]))
                    < req'[p].brushstrokes_needed]_vars

\* C20: when the subscription's current price differs from the price paid on
\* the latest invoice, the allowance a balance check or a debit works with is
\* that of the paid price; stated for the case the rule protects, a move to
\* a smaller plan in the middle of a paid period.
C20_PaidPriceGoverns ==
    [][\A p \in Workers :
          (/\ \/ pc[p] = "renewed" /\ pc'[p] \in {"checked", "done"}
              \/ pc[p] = "archived" /\ pc'[p] \in {"txsaved", "settled"}
           /\ stripe.status = "active"
           /\ stripe.price # stripe.paid
           /\ get_subscription_tiers[stripe.paid] > get_subscription_tiers[stripe.price]
           /\ req'[p].allowance # 0)
              => req'[p].allowance = get_subscription_tiers[stripe.paid]]_vars

\* ---------------------------------------------------------- rate limiter
ShortWindow == get_rate_limits.seconds_window * TicksPerSecond
HourWindow == HourSeconds * TicksPerSecond

\* A step in which caller c runs check_rate_limit and the store answers.
Checks(c) == rl[c].pc = "idle" /\ rl'[c].pc = "checked" /\ ~rl'[c].error

\* The request caller c issues now comes less than the short window after
\* the issue of its latest admitted request.
WithinSpan(c) == rl[c].admitted /\ now - rl[c].admitted_at < ShortWindow

Denied(c) == rl[c].pc = "checked" /\ ~rl[c].result.allowed

\* Ticks left, at the time of caller c's denied check, until the oldest
\* attempt of the violated window leaves it:
\* window_duration - (now - oldest attempt in the window).
Remaining(c) ==
    LET window == IF rl[c].result.limit_type = "seconds"
                  THEN ShortWindow ELSE HourWindow
    IN  window - (rl[c].at
                   - OldestIn(rate_limits, InWindow(rate_limits, rl[c].at, window)))

AdmittedInWindowFrom(i) ==
    {j \in 1..Len(rate_limits) :
        /\ rate_limits[j] >= rate_limits[i]
        /\ rate_limits[j] - rate_limits[i] < ShortWindow}

\* C23: under any interleaving of concurrent requests of one account, the
\* number of requests admitted within one short window never exceeds the
\* short-window limit.
C23_AdmissionsWithinLimit ==
    \A i \in 1..Len(rate_limits) :
        Cardinality(AdmittedInWindowFrom(i)) <= get_rate_limits.seconds_limit

\* C24: every generation request passes the rate limiter first: the balance
\* is checked and the generator invoked only for a request whose attempt has
\* been recorded, and a request is never taken past a denial.
C24_RateLimiterFirst ==
    \A p \in Workers :
        (pc[p] \in {"checked", "generated", "archived", "txsaved", "settled"}
            \/ req[p].generator_called)
        => /\ rate_limits # <<>>
           /\ \E c \in Clients : rl[c].pc = "recorded"

\* C25: the rate limiter fails open: a check_rate_limit whose store call
\* raises returns Allowed, and a record_attempt whose write raises returns
\* normally, storing nothing, so that the request goes on.
C25_FailsOpen ==
    [][\A c \in SequentialClients :
          /\ (rl[c].pc = "idle" /\ rl'[c].pc = "checked" /\ rl'[c].error)
                => rl'[c].result.allowed
          /\ (rl[c].pc = "checked" /\ rl'[c].pc # "checked" /\ rl'[c].error)
                => /\ rl'[c].pc = "recorded"
                   /\ rate_limits' = rate_limits]_vars

\* A check has been answered Allowed on a store failure although an attempt
\* lies in the short window.
C25_Witness ==
    /\ rl["c1"].pc = "checked"
    /\ rl["c1"].error
    /\ rl["c1"].result.allowed
    /\ InWindow(rate_limits, rl["c1"].at, ShortWindow) # {}

\* ------------------------------------------------------------ the archive
\* Generations whose image data has been cleared.
Evicted(gens) == {i \in 1..Len(gens) : ~gens[i].image_data}

\* C26: after every completed save the completed generations that hold image
\* data number at most MAX_IMAGES_PER_USER, and once more than that many have
\* been stored exactly MAX_IMAGES_PER_USER hold image data, the others being
\* evicted.
C26_ArchiveWithinCap ==
    /\ Cardinality(WithImage(generations)) <= MAX_IMAGES_PER_USER
    /\ Len(generations) > MAX_IMAGES_PER_USER =>
          /\ Cardinality(WithImage(generations)) = MAX_IMAGES_PER_USER
          /\ Cardinality(Evicted(generations))
                = Len(generations) - MAX_IMAGES_PER_USER

\* C27: eviction is oldest-first by created_at: every evicted generation is
\* older than every generation that still holds its image data, and eviction
\* stops at the cap: once MAX_IMAGES_PER_USER generations have been stored,
\* that many keep their image data.
C27_OldestFirst ==
    /\ \A i \in Evicted(generations), j \in WithImage(generations) : i < j
    /\ Len(generations) >= MAX_IMAGES_PER_USER =>
          Cardinality(WithImage(generations)) >= MAX_IMAGES_PER_USER

\* Every generation document of gens is still in after, with its id and cost
\* and at its place in created_at order.
KeepsRecords(gens, after) ==
    /\ Len(gens) <= Len(after)
    /\ \A i \in 1..Len(gens) :
          /\ after[i].id = gens[i].id
          /\ after[i].brushstrokes_used = gens[i].brushstrokes_used

\* A step that evicts: a generation that held image data no longer does.
Evicts ==
    \E i \in 1..Len(generations) :
        /\ i <= Len(generations')
        /\ generations[i].image_data
        /\ ~generations'[i].image_data

\* C28 as claimed: eviction only clears image data; no step of any operation
\* removes a generation document or changes its metadata, and a step that
\* evicts leaves the transaction log as it is.
C28_NeverHardDeleted ==
    [][/\ KeepsRecords(generations, generations')
       /\ Evicts => transactions' = transactions]_vars

\* C28 as amended: the same, except for account deletion: a step that removes
\* generation documents is a delete_user_account, which deletes all
\* generations of the account.
C28_NeverHardDeletedExceptAccountDeletion ==
    [][\/ /\ KeepsRecords(generations, generations')
          /\ Evicts => transactions' = transactions
       \/ /\ generations' = <<>>
          /\ \E failed_at \in DeletionFailures : delete_user_account(failed_at)]_vars

\* An evicted generation is still on record, with its cost, next to the usage
\* transaction of its request.
C28_Witness ==
    /\ user_exists
    /\ \E i \in Evicted(generations) :
          /\ generations[i].brushstrokes_used = CostLow
          /\ \E t \in 1..Len(transactions) : transactions[t].generation = i

\* max(0, CAP - number of completed generations holding image data)
remainingSlots(gens) ==
    IF Cardinality(WithImage(gens)) >= MAX_IMAGES_PER_USER THEN 0
    ELSE MAX_IMAGES_PER_USER - Cardinality(WithImage(gens))

\* C29 as claimed: the remaining slots a request reports are always
\* max(0, CAP - completed generations holding image data): between 0 and CAP,
\* and 0 exactly when the archive is full.
C29_RemainingSlots ==
    \A p \in Workers :
        (pc[p] = "done" /\ result[p].success) =>
            /\ result[p].remaining_image_slots = remainingSlots(generations)
            /\ result[p].remaining_image_slots \in 0..MAX_IMAGES_PER_USER
            /\ result[p].remaining_image_slots = 0
                  <=> Cardinality(WithImage(generations)) >= MAX_IMAGES_PER_USER

\* C29 as amended: the remaining slots are max(0, CAP - completed generations
\* holding image data) whenever the count can be read, and CAP when reading
\* it raises; they are always between 0 and CAP.
C29_RemainingSlotsUnlessCountFails ==
    [][\A p \in Sequential :
          /\ Finish(p, TRUE, TRUE, TRUE) =>
                /\ result'[p].remaining_image_slots = remainingSlots(generations)
                /\ result'[p].remaining_image_slots = 0
                      <=> Cardinality(WithImage(generations)) >= MAX_IMAGES_PER_USER
          /\ Finish(p, TRUE, TRUE, FALSE) =>
                result'[p].remaining_image_slots = MAX_IMAGES_PER_USER
          /\ result'[p].remaining_image_slots \in 0..MAX_IMAGES_PER_USER]_vars

\* A request has reported no slot left while more generations than the cap
\* hold image data.
C29_Witness ==
    /\ pc["w1"] = "done"
    /\ result["w1"].success
    /\ result["w1"].remaining_image_slots = 0
    /\ Cardinality(WithImage(generations)) > MAX_IMAGES_PER_USER

\* ------------------------------------------------------- the orchestrator
\* The request of worker p has passed the balance check.
BalanceChecked(p) ==
    /\ req[p].brushstrokes_needed > 0
    /\ req[p].current_balance >= req[p].brushstrokes_needed
    /\ pc[p] \notin {"idle", "loaded", "renewed"}
    /\ result[p].kind # "insufficient"

\* The debit of worker p's request has been attempted.
DebitAttempted(p) == req[p].usage_tx # 0 \/ req[p].recorded # "none"

\* The generator is invoked only after a passed balance check, the archive
\* write happens only after a successful generation, and the debit is
\* attempted only after a successful archive write.
OrderOfSteps(p) ==
    /\ req[p].generator_called => BalanceChecked(p)
    /\ req[p].generation # 0 =>
          /\ req[p].generator_called
          /\ result[p].kind # "generation_failed"
    /\ DebitAttempted(p) =>
          /\ req[p].generation # 0
          /\ result[p].kind # "persist_failed"

\* C30: every request goes through Admitted, BalanceChecked, Generated,
\* Archived, Debited and Completed in this order and skips none: the balance
\* is checked only for a request the rate limiter admitted, the steps up to
\* the debit follow in order, and a request completes (returns success) only
\* after a successful debit.
C30_NoStateSkipped ==
    \A p \in Workers :
        /\ BalanceChecked(p) => \E c \in Clients : rl[c].pc = "recorded"
        /\ OrderOfSteps(p)
        /\ (pc[p] = "done" /\ result[p].success) => Billed(p)

\* The steps from the balance check to the debit attempt follow in order.
C30_StepsInOrder == \A p \in Workers : OrderOfSteps(p)

\* A request completes only after a successful debit.
C30_CompletedOnlyAfterDebit ==
    \A p \in Workers : (pc[p] = "done" /\ result[p].success) => Billed(p)

\* ------------------------------------------------- the unbilled artifact
\* The request of worker p has returned although its debit failed:
\* record_generation returned False or raised after the artifact was stored.
DebitFailed(p) ==
    /\ pc[p] = "done"
    /\ req[p].generation # 0
    /\ req[p].recorded \in {"false", "raised"}

\* C31: when the debit fails after the artifact was archived, the artifact
\* stays stored with its payload, its recorded cost is 0 and the result
\* reports that nothing was charged.
C31_UnbilledArtifactFlagged ==
    \A p \in Workers :
        (DebitFailed(p) /\ user_exists) =>
            /\ req[p].generation \in 1..Len(generations)
            /\ generations[req[p].generation].image_data
            /\ generations[req[p].generation].brushstrokes_used = 0
            /\ result[p].brushstrokes_used = 0

\* The artifact of a request whose debit failed is never retracted.
C31_ArtifactRetained ==
    \A p \in Workers :
        (DebitFailed(p) /\ user_exists) =>
            /\ req[p].generation \in 1..Len(generations)
            /\ generations[req[p].generation].image_data

\* ------------------------------------------ every input of generate_image
\* The quality strings a caller may pass: the three tariffs and one unknown.
RequestedQualities == Qualities \cup {"ultra"}

\* One caller passes any quality and any generation type to generate_image
\* while each collaborator (provider, generator, database) may fail at each
\* call; the account starts with purchased brushstrokes.
NextInputs ==
    \/ \E p \in Sequential : ReqLoad(p)
    \/ \E p \in Sequential : ReqRenew(p)
    \/ \E p \in Sequential : ReqEnd(p)
    \/ \E p \in Sequential, quality \in RequestedQualities : BalanceCheck(p, quality)
    \/ \E p \in Sequential,
          outcome \in {"ok", "invalid_type", "description_failed", "image_failed"} :
          Generate(p, outcome)
    \/ \E p \in Sequential, db_ok \in BOOLEAN,
          failing \in EvictionFailures(MaxArchiveGenerations) :
          Len(generations) < MaxArchiveGenerations /\ Archive(p, db_ok, failing)
    \/ \E p \in Sequential, reachable \in BOOLEAN, db_ok \in BOOLEAN :
          RecordGeneration(p, reachable, db_ok)
    \/ \E p \in Sequential, db_ok \in BOOLEAN : RecordGenerationSave(p, db_ok)
    \/ \E p \in Sequential, reload_ok \in BOOLEAN, reachable \in BOOLEAN,
          slots_ok \in BOOLEAN :
          Finish(p, reload_ok, reachable, slots_ok)

SpecInputs == InitArchive /\ [][NextInputs]_vars

\* C32: generate_image never raises: whatever the quality, the generation
\* type and the failures of its collaborators, the caller gets a typed result
\* and no exception.
C32_NeverRaises ==
    \A p \in Workers : result[p].kind # "exception"

\* A request with a known quality ends in a typed result whatever else fails.
C32_TypedResultForKnownQuality ==
    \A p \in Workers :
        (pc[p] = "done" /\ req[p].brushstrokes_needed # 0) =>
            result[p].kind \in {"success", "insufficient", "invalid_generation_type",
                                "generation_failed", "persist_failed", "unexpected"}

\* ------------------------------------------------- the successful result
\* The request of worker p has returned a successful result.
Succeeded(p) == pc[p] = "done" /\ result[p].success

\* The fixed tariff of a quality (low = 1, medium = 3, high = 5).
Tariff(quality) ==
    CASE quality = "low" -> CostLow
      [] quality = "medium" -> CostMedium
      [] quality = "high" -> CostHigh

\* C33: on a successful generation the cost charged is the tariff of the
\* requested quality and the reported remaining balance is the available
\* balance before the request minus that tariff.
C33_SuccessReportsTariffAndBalance ==
    \A p \in Workers :
        Succeeded(p) =>
            /\ result[p].brushstrokes_used = Tariff(req[p].quality)
            /\ result[p].brushstrokes_remaining =
                  req[p].current_balance - Tariff(req[p].quality)

\* The cost reported by a successful result is the tariff of the quality.
C33_CostIsTariff ==
    \A p \in Workers :
        Succeeded(p) => result[p].brushstrokes_used = Tariff(req[p].quality)

\* When the debit went through, the remaining balance is the balance before
\* the request minus the tariff.
C33_BalanceWhenBilled ==
    \A p \in Workers :
        (Succeeded(p) /\ Billed(p)) =>
            result[p].brushstrokes_remaining =
                req[p].current_balance - Tariff(req[p].quality)

\* ------------------------------------------- concurrent reconciler runs
\* Two requests of one subscribed account run concurrently while the provider
\* starts the next billing period; the provider and the database answer
\* every call.
NextRollover ==
    \/ StripeRenews
    \/ \E p \in Workers : ReqLoad(p)
    \/ \E p \in Workers : ReqRenew(p)
    \/ \E p \in Workers : ReqEnd(p)
    \/ \E p \in Workers : BalanceCheck(p, "low")
    \/ \E p \in Workers : Generate(p, "ok")
    \/ \E p \in Workers :
          Len(generations) < MaxConcurrentGenerations /\ Archive(p, TRUE, {})
    \/ \E p \in Workers : RecordGeneration(p, TRUE, TRUE)
    \/ \E p \in Workers : RecordGenerationSave(p, TRUE)
    \/ \E p \in Workers : Finish(p, TRUE, TRUE, TRUE)

SpecRollover == InitConc /\ [][NextRollover]_vars

\* The request of worker q was reconciled to the provider's current period
\* and its debit has been saved since; it has not returned yet.
DebitedThisPeriod(q) ==
    /\ pc[q] = "settled"
    /\ req[q].recorded = "ok"
    /\ loc[q].current_period_start = stripe.period
    /\ user.current_period_start = stripe.period

\* C34: two reconciler runs that observe the same rollover apply the reset
\* once: the later write does not reset usage_this_period again, so a debit
\* applied between the two writes is still counted.
C34_RolloverAppliedOnce ==
    \A q \in Workers :
        DebitedThisPeriod(q) =>
            user.allowance_used_this_period >= req[q].brushstrokes_needed

\* --------------------------------------------- the rollover comparison
\* The reconciler run of worker p finds the subscription active at the
\* provider with a period start that is not later than the stored one.
SeesNoLaterPeriod(p) ==
    /\ pc[p] = "loaded"
    /\ loc[p].stripe_subscription_id # NoSub
    /\ stripe.status \in {"active", "trialing"}
    /\ ~(stripe.period > loc[p].current_period_start)

AttemptsWithin(records, t, window) ==
    {i \in 1..Len(records) : records[i] <= t /\ t - records[i] <= window}

\* A step in which caller c, holding an Allowed result of a check that the
\* store answered, runs record_attempt and is admitted.
Admits(c) ==
    /\ rl[c].pc = "checked"
    /\ rl[c].result.allowed
    /\ ~rl[c].error
    /\ rl'[c].pc = "recorded"

\* C36: in a sequential run in which every Allowed check is followed by
\* record_attempt before the next check, each request admitted by a check the
\* store answered is, together with the attempts recorded before it, within
\* seconds_limit in the window of seconds_window seconds that ends with it
\* and within hourly_limit in the hour that ends with it.
C36_AdmittedWithinLimits ==
    [][\A c \in SequentialClients :
          Admits(c) =>
              /\ Cardinality(AttemptsWithin(rate_limits, now, ShortWindow)) + 1
                    <= get_rate_limits.seconds_limit
              /\ Cardinality(AttemptsWithin(rate_limits, now, HourWindow)) + 1
                    <= get_rate_limits.hourly_limit]_vars

\* A request has been admitted and recorded that fills the hourly limit, an
\* earlier admitted attempt lying outside the short window.
C36_Witness ==
    /\ rl["c1"].pc = "recorded"
    /\ ~rl["c1"].error
    /\ rl["c1"].admitted
    /\ Cardinality(AttemptsWithin(rate_limits, now, ShortWindow))
          = get_rate_limits.seconds_limit
    /\ Cardinality(AttemptsWithin(rate_limits, now, HourWindow))
          = get_rate_limits.hourly_limit

\* The attempts recorded within the window that starts with attempt i.
RecordedInWindowFrom(i, window) ==
    {j \in 1..Len(rate_limits) :
        /\ rate_limits[j] >= rate_limits[i]
        /\ rate_limits[j] - rate_limits[i] <= window}

\* Every sliding window holds at most the limit of recorded attempts.
C36_EveryWindowWithinLimits ==
    \A i \in 1..Len(rate_limits) :
        /\ Cardinality(RecordedInWindowFrom(i, ShortWindow))
              <= get_rate_limits.seconds_limit
        /\ Cardinality(RecordedInWindowFrom(i, HourWindow))
              <= get_rate_limits.hourly_limit

\* ------------------------------------------------- waiting out a denial
\* Caller c's latest check was denied, nothing has been recorded since, and
\* the retry_after of that denial has just elapsed.
RetryAfterElapsed(c) ==
    /\ rl[c].pc = "idle"
    /\ ~rl[c].result.allowed
    /\ rl[c].denials > 0
    /\ now = rl[c].at + rl[c].result.retry_after * TicksPerSecond

\* C37: the retry-after is sufficient: after a denial with retry_after = r at
\* time t and no further attempt recorded, the check made at time t + r is
\* Allowed, whichever of the two limits was exceeded at t.
C37_RetryAfterSufficient ==
    [][\A c \in SequentialClients :
          (RetryAfterElapsed(c) /\ rl'[c].pc = "checked") =>
              rl'[c].result.allowed]_vars

\* ------------------------------------------------- the checkout redirect
\* The customer has paid one pack checkout session; the browser requests
\* /checkout-success with its session_id any number of times, between
\* sequential generation requests.  Stripe and the database answer every call.
PaidSessions == {"cs_1"}
\* The success page is requested at most this many times.
MaxHandlings == 3

NextCheckout ==
    \/ \E session_id \in PaidSessions :
          Len(transactions) < MaxHandlings /\ HandleCheckoutPayment
    \/ \E p \in Sequential : ReqLoad(p)
    \/ \E p \in Sequential : ReqRenew(p)
    \/ \E p \in Sequential : ReqEnd(p)
    \/ \E p \in Sequential, quality \in Qualities : BalanceCheck(p, quality)
    \/ \E p \in Sequential : Generate(p, "ok")
    \/ \E p \in Sequential :
          Len(generations) < MaxConcurrentGenerations /\ Archive(p, TRUE, {})
    \/ \E p \in Sequential : RecordGeneration(p, TRUE, TRUE)
    \/ \E p \in Sequential : RecordGenerationSave(p, TRUE)
    \/ \E p \in Sequential : Finish(p, TRUE, TRUE, TRUE)

SpecCheckout == Init /\ [][NextCheckout]_vars

\* The purchase transactions in the log.
Purchases == {i \in 1..Len(transactions) :
                 transactions[i].transaction_type = "purchase"}

\* C38: handling one paid pack checkout session any number of times credits
\* the pack at most once and appends at most one purchase transaction.
C38_PackCreditedOnce ==
    /\ Cardinality(Purchases) <= Cardinality(PaidSessions)
    /\ \A i \in Purchases :
          transactions[i].balance_after <= PackBrushstrokes

\* ------------------------------------------------- usage within a period
\* A step inside one billing period: the subscription is active before and
\* after it, the provider's period start does not move, and the account
\* holds the subscription with that period stored before and after.
WithinOnePeriod ==
    /\ stripe.status = "active"
    /\ stripe'.status = "active"
    /\ stripe'.period = stripe.period
    /\ user.stripe_subscription_id # NoSub
    /\ user'.stripe_subscription_id # NoSub
    /\ user.current_period_start = stripe.period
    /\ user'.current_period_start = stripe.period

\* C39: within one billing period usage_this_period never decreases: only a
\* period rollover resets it, not a plan change, a repeated subscription
\* checkout completion or a credit.
C39_UsageNeverDecreasesInPeriod ==
    [][WithinOnePeriod =>
          user'.allowance_used_this_period >= user.allowance_used_this_period]_vars

\* Apart from a plan change and a subscription checkout completion, no step
\* inside a billing period lowers usage_this_period.
C39_OnlyPlanChangeAndCheckoutReset ==
    [][(/\ WithinOnePeriod
        /\ ~ HandleCheckoutSubscription
        /\ \A new_price_id \in Tiers : ~ change_subscription_plan(new_price_id)) =>
          user'.allowance_used_this_period >= user.allowance_used_this_period]_vars

\* A plan change inside a billing period leaves usage_this_period as it was.
C39_PlanChangeKeepsUsage ==
    [][\A new_price_id \in Tiers :
          (WithinOnePeriod /\ change_subscription_plan(new_price_id)) =>
              user'.allowance_used_this_period = user.allowance_used_this_period]_vars

\* A repeated subscription checkout completion inside a billing period
\* leaves usage_this_period as it was.
C39_RepeatedCheckoutKeepsUsage ==
    [][(WithinOnePeriod /\ HandleCheckoutSubscription) =>
          user'.allowance_used_this_period = user.allowance_used_this_period]_vars

\* ------------------------------------------------- token requests
\* Token requests for the issued codes arrive, also two at a time and also
\* repeated; codes expire and the database may fail on a write.
NextOAuth ==
    \/ \E c \in Codes : CodeExpires(c)
    \/ \E x \in Exchangers, code \in Codes, request_ok \in BOOLEAN :
          ExchangeLookup(x, code, request_ok)
    \/ \E x \in Exchangers, db_ok \in BOOLEAN : ExchangeMarkUsed(x, db_ok)
    \/ \E x \in Exchangers, db_ok \in BOOLEAN : ExchangeCreateToken(x, db_ok)
    \/ \E x \in Exchangers : ExchangeReturn(x)

SpecOAuth == Init /\ [][NextOAuth]_vars

\* C40: an authorization code is single-use: after one successful exchange
\* every later exchange of the same code fails and issues no token, and of
\* two concurrent exchanges of one code at most one succeeds: no code ever
\* yields more than one token.
C40_CodeSingleUse ==
    \A c \in Codes : tokens[c] <= 1

\* An exchange that starts after a successful exchange of the same code is
\* refused and issues no token.
C40_LaterExchangeFails ==
    [][\A x \in Exchangers, c \in Codes :
          (/\ tokens[c] >= 1
           /\ ex[x].pc = "idle"
           /\ ex'[x].pc # "idle"
           /\ ex'[x].code = c) =>
              /\ ex'[x].pc = "done"
              /\ ex'[x].result = "none"]_vars

====
